---- MODULE Spec2Model ----
(***************************************************************************)
(* A model of recursive-llm (src/src/rlm): the answer parser (parser.py),  *)
(* the sandboxed executor (repl.py) and the orchestrator loop with its     *)
(* recursive-call bridge (core.py).                                        *)
(*                                                                         *)
(* Text is a sequence of tokens.  A token is one character ("a", "b",      *)
(* "(", ")", "sp" for a blank, "nl" for a line break, "dq" for the double  *)
(* quote, "sq" for the single quote, a decimal digit) or one indivisible   *)
(* piece of text: the keyword FINAL, its suffix _VAR, a fence, a simple    *)
(* statement of sandboxed code, a fixed message of the program.            *)
(***************************************************************************)
EXTENDS Integers, Sequences, FiniteSets, TLC

VARIABLES
    p_src,      \* parser harness: how p_text was put together
    stack,      \* the live Sessions (RLM instances with the locals of their
                \* acompletion call), outermost first; the last one runs
    sys_stdout, \* the process's sys.stdout: 0 the original stream, d + 1 the
                \* StringIO installed by execute of the Session at depth d
    p_text,     \* parser harness: the response text handed to the parser
    p_env,      \* parser harness: the environment handed to the parser
    p_op,       \* parser harness: the parser function applied last
    p_out       \* parser harness: what that function returned

parser_vars == <<p_src, p_text, p_env, p_op, p_out>>

rlm_vars == <<stack, sys_stdout>>

vars == <<stack, sys_stdout, p_src, p_text, p_env, p_op, p_out>>

----------------------------------------------------------------------------
(* Bounds of the model.                                                    *)

\* Longest unstructured text (any tokens in any order) given to the parser.
MaxRawLen == 3

\* Largest max_iterations an RLM is constructed with.
MaxIterationsCfg == 2

\* Largest max_depth an RLM is constructed with.
MaxDepthCfg == 2

\* Largest _current_depth the top-level RLM is constructed with.
MaxStartDepth == 2

\* Largest max_depth * max_iterations an RLM is constructed with: the most
\* passes a chain of nested Sessions can hold at once.
MaxChainPasses == 4

----------------------------------------------------------------------------
(* Text helpers (Python str operations on token sequences).                *)

\* Python's None, and a function's result wrapped so that the empty string
\* and None differ.
None == [none |-> TRUE]

Some(s) == [none |-> FALSE, val |-> s]

Min(S) == CHOOSE x \in S : \A y \in S : x <= y

Max(S) == CHOOSE x \in S : \A y \in S : x >= y

\* Does pattern p occur in t starting at index i (1-based)?
SubSeqAt(t, i, p) ==
    /\ i >= 1
    /\ i + Len(p) - 1 <= Len(t)
    /\ SubSeq(t, i, i + Len(p) - 1) = p

\* str.find(p, from): the least index >= from where p occurs, 0 when none
\* (Python's -1; indices here are 1-based).
Find(t, p, from) ==
    LET hits == {i \in from..(Len(t) + 1) : SubSeqAt(t, i, p)}
    IN  IF hits = {} THEN 0 ELSE Min(hits)

\* Python's `p in t`.
Contains(t, p) == \E i \in 1..(Len(t) + 1) : SubSeqAt(t, i, p)

\* Characters matched by \s and removed by str.strip().
IsSpace(c) == c \in {"sp", "nl"}

\* Characters matched by \w.  The keyword tokens consist of word characters.
WordTok == {"a", "b", "u", "v", "w", "n", "FINAL", "_VAR", "context", "query",
            "classified",
            "0", "1", "2", "3", "4", "5", "6", "7", "8", "9"}

IsWord(c) == c \in WordTok

\* The position after a greedy \s* that starts at i (what follows \s* in
\* every pattern of parser.py is not a blank, so no backtracking applies).
SkipSpace(t, i) ==
    Min({j \in i..(Len(t) + 1) : j > Len(t) \/ ~IsSpace(t[j])})

\* str.strip(): leading and trailing blanks removed, inner ones kept.
Strip(s) ==
    LET keep == {i \in 1..Len(s) : ~IsSpace(s[i])}
    IN  IF keep = {} THEN <<>> ELSE SubSeq(s, Min(keep), Max(keep))

----------------------------------------------------------------------------
(* parser.py                                                               *)

DQ == <<"dq">>

SQ == <<"sq">>

TDQ == <<"dq", "dq", "dq">>

TSQ == <<"sq", "sq", "sq">>

\* The patterns of extract_final, in the order of the list.  A pattern is
\* FINAL \s* \( \s* <quote> (group) <quote>; the group is (.*) under DOTALL
\* for the triple quotes, greedy, and ([^q]*) for the single ones.
patterns_spec_order == <<[quote |-> DQ, greedy |-> FALSE],
                         [quote |-> SQ, greedy |-> FALSE],
                         [quote |-> TDQ, greedy |-> TRUE],
                         [quote |-> TSQ, greedy |-> TRUE]>>

patterns == <<[quote |-> TDQ, greedy |-> TRUE],
              [quote |-> TSQ, greedy |-> TRUE],
              [quote |-> DQ, greedy |-> FALSE],
              [quote |-> SQ, greedy |-> FALSE]>>

\* Where the group of pattern pat starts when the pattern's prefix
\* FINAL \s* \( \s* <quote> matches at i; 0 when it does not.
GroupStart(t, i, pat) ==
    IF ~(i <= Len(t) /\ t[i] = "FINAL") THEN 0
    ELSE LET j == SkipSpace(t, i + 1)
         IN  IF ~(j <= Len(t) /\ t[j] = "(") THEN 0
             ELSE LET k == SkipSpace(t, j + 1)
                  IN  IF SubSeqAt(t, k, pat.quote) THEN k + Len(pat.quote)
                      ELSE 0

\* Where the closing quote starts for a group starting at b; 0 when the
\* pattern does not match.  (.*) is greedy: it runs to the last closing
\* quote of the text.  ([^q]*) stops at the first q.
GroupEnd(t, b, pat) ==
    LET closes == {c \in b..Len(t) : SubSeqAt(t, c, pat.quote)}
    IN  IF closes = {} THEN 0
        ELSE IF pat.greedy THEN Max(closes) ELSE Min(closes)

\* m = re.search(pattern, response, re.DOTALL); m.group(1), or None: the
\* match at the leftmost position where the pattern matches.
SearchPattern(t, pat) ==
    LET starts == {i \in 1..Len(t) :
                      /\ GroupStart(t, i, pat) # 0
                      /\ GroupEnd(t, GroupStart(t, i, pat), pat) # 0}
    IN  IF starts = {} THEN None
        ELSE LET b == GroupStart(t, Min(starts), pat)
             IN  Some(SubSeq(t, b, GroupEnd(t, b, pat) - 1))

\* for pattern in pats: the first pattern that matches decides.
RECURSIVE FirstMatch(_, _, _)
FirstMatch(t, pats, k) ==
    IF k > Len(pats) THEN None
    ELSE LET m == SearchPattern(t, pats[k])
         IN  IF m # None THEN Some(Strip(m.val))
             ELSE FirstMatch(t, pats, k + 1)

extract_final(response) == FirstMatch(response, patterns, 1)

\* A value of the environment: a str, an int, or an opaque object
\* (the recursive_llm function, the re module).
StrVal(s) == [t |-> "str", s |-> s, n |-> 0]

IntVal(n) == [t |-> "int", s |-> <<>>, n |-> n]

ObjVal(name) == [t |-> "obj", s |-> <<name>>, n |-> 0]

\* A list of n elements, each of them 1.
ListVal(n) == [t |-> "list", s |-> <<>>, n |-> n]

\* env[name] = value.
Bind(env, name, value) ==
    [x \in DOMAIN env \cup {name} |-> IF x = name THEN value ELSE env[x]]

Digit(d) == <<"0", "1", "2", "3", "4", "5", "6", "7", "8", "9">>[d + 1]

\* str(n) of a natural number: its decimal digits.
RECURSIVE Digits(_)
Digits(n) ==
    IF n < 10 THEN <<Digit(n)>> ELSE Digits(n \div 10) \o <<Digit(n % 10)>>

\* The PrintCollector object RestrictedPython binds to _print; s is the text
\* printed into it (its txt attribute, joined).
PrinterVal(s) == [t |-> "printer", s |-> s, n |-> 0]

\* str(value).  An object prints as one piece of text naming it.
Str(value) ==
    CASE value.t = "str" -> value.s
      [] value.t = "int" -> Digits(value.n)
      [] value.t = "printer" -> <<"<PrintCollector object>">>
      [] value.t = "list" ->
            <<"[">> \o [i \in 1..(2 * value.n - 1) |->
                           IF i % 2 = 1 THEN "1" ELSE ", "] \o <<"]">>
      [] OTHER -> value.s

\* The end of the run of \w that starts at k (k - 1 when t[k] is no \w).
WordEnd(t, k) ==
    Max({k - 1} \cup {e \in k..Len(t) : \A x \in k..e : IsWord(t[x])})

\* The name captured by FINAL_VAR \s* \( \s* (\w+) \s* \) at i, as
\* <<first, last>> token positions; <<0, 0>> when there is no match at i.
VarMatchAt(t, i) ==
    IF ~SubSeqAt(t, i, <<"FINAL", "_VAR">>) THEN <<0, 0>>
    ELSE LET j == SkipSpace(t, i + 2)
         IN  IF ~(j <= Len(t) /\ t[j] = "(") THEN <<0, 0>>
             ELSE LET k == SkipSpace(t, j + 1)
                      e == WordEnd(t, k)
                      m == SkipSpace(t, e + 1)
                  IN  IF e >= k /\ m <= Len(t) /\ t[m] = ")"
                      THEN <<k, e>> ELSE <<0, 0>>

\* re.search(r'FINAL_VAR\s*\(\s*(\w+)\s*\)', response).group(1), or None.
SearchVar(t) ==
    LET starts == {i \in 1..Len(t) : VarMatchAt(t, i) # <<0, 0>>}
    IN  IF starts = {} THEN None
        ELSE LET m == VarMatchAt(t, Min(starts))
             IN  Some(SubSeq(t, m[1], m[2]))

extract_final_var_default(response, env) ==
    LET m == SearchVar(response)
    IN  IF m = None THEN None
        ELSE IF m.val \in DOMAIN env THEN Some(Str(env[m.val]))
        ELSE Some(<<>>)

extract_final_var(response, env) ==
    LET m == SearchVar(response)
    IN  IF m = None THEN None
        ELSE IF m.val \in DOMAIN env THEN Some(Str(env[m.val]))
        ELSE None

\* A variant that looks for the inline-literal marker only.
is_final_literal_only(response) == Contains(response, <<"FINAL", "(">>)

\* 'FINAL(' in response or 'FINAL_VAR(' in response
is_final(response) ==
    \/ Contains(response, <<"FINAL", "(">>)
    \/ Contains(response, <<"FINAL", "_VAR", "(">>)

parse_response(response, env) ==
    LET answer == extract_final(response)
    IN  IF answer # None THEN answer ELSE extract_final_var(response, env)

----------------------------------------------------------------------------
(* repl.py                                                                 *)

\* The simple statements of sandboxed code the model knows, one token each:
\*   "v=ctx[:K]"   v = context[:SliceLen]
\*   "n=len(ctx)"  n = len(context)
\*   "v=1/0"       v = 1 / 0                    (runtime fault)
\*   "import os"   import os                    (disallowed capability)
\*   "print(ctx)"  print(context)
\*   "print(v)"    print(v)
\*   "w=rec(v)"    w = recursive_llm(query, v)
\*   "x="          x =                          (does not compile)
\*   "v=os.listdir()"  v = re.enum.sys.modules['os'].listdir('.')
\*                 (the os module reached through the attributes of the re
\*                 module of the globals: _getattr_ refuses only names that
\*                 start with an underscore, _getitem_ refuses nothing)
\*   "n=int(ctx)"  n = int(context)
\*   "ctx=ctx[:K]" context = context[:K]
\*   "v=ctx[K:]"   v = context[K:]
\*   "print(q)"    print(query)
\*   "l=[]"        l = []
\*   "l.append(1)" l.append(1)                  (a bare call expression)
\* A line made of word characters only is an identifier (a bare expression),
\* and FINAL(...) / FINAL_VAR(...) on a line is a call of an undefined name.
\* A fragment holds one simple statement per line.
StmtTok == {"v=ctx[:K]", "n=len(ctx)", "v=1/0", "import os", "print(ctx)",
            "print(v)", "w=rec(v)", "x=", "v=os.listdir()", "n=int(ctx)",
            "ctx=ctx[:K]", "v=ctx[K:]", "print(q)", "l=[]", "l.append(1)"}

\* Length of the slice taken by "v=ctx[:K]".
SliceLen == 2

\* Scaled stand-in for REPLExecutor's default max_output_chars (2000):
\* the documents of the model are a few characters long.
MaxOutputChars == 4

\* The three backquotes that open or close a fenced block.
FENCE == "fence"

\* text.split('\n').
RECURSIVE SplitLines(_)
SplitLines(t) ==
    LET nls == {i \in 1..Len(t) : t[i] = "nl"}
    IN  IF nls = {} THEN <<t>>
        ELSE <<SubSeq(t, 1, Min(nls) - 1)>>
                 \o SplitLines(SubSeq(t, Min(nls) + 1, Len(t)))

\* A variant of _extract_code that takes the first closed fence of the text,
\* tagged or not.
_extract_code_first_fence(text) ==
    LET s2 == Find(text, <<FENCE>>, 1) + 1
        e2 == Find(text, <<FENCE>>, s2)
        body == SubSeq(text, s2, e2 - 1)
    IN  IF Contains(text, <<FENCE>>) /\ e2 # 0
        THEN Strip(IF body # <<>> /\ body[1] = "python" THEN Tail(body)
                   ELSE body)
        ELSE text

\* REPLExecutor._extract_code.
_extract_code(text) ==
    LET tagged == <<FENCE, "python">>
        s1 == Find(text, tagged, 1) + Len(tagged)
        e1 == Find(text, <<FENCE>>, s1)
        s2 == Find(text, <<FENCE>>, 1) + 1
        e2 == Find(text, <<FENCE>>, s2)
    IN  IF Contains(text, tagged) /\ e1 # 0
        THEN Strip(SubSeq(text, s1, e1 - 1))
        ELSE IF Contains(text, <<FENCE>>) /\ e2 # 0
        THEN Strip(SubSeq(text, s2, e2 - 1))
        ELSE text

\* A quoted literal on one line: q ... q with no q inside.
IsLiteral(a) ==
    \E q \in {DQ, SQ, TDQ, TSQ} :
        /\ Len(a) >= 2 * Len(q)
        /\ SubSeqAt(a, 1, q)
        /\ SubSeqAt(a, Len(a) - Len(q) + 1, q)
        /\ LET inner == SubSeq(a, Len(q) + 1, Len(a) - Len(q))
           IN  \A i \in 1..Len(inner) : inner[i] \notin {"dq", "sq"}

IsDigit(c) == c \in {"0", "1", "2", "3", "4", "5", "6", "7", "8", "9"}

\* An identifier RestrictedPython accepts: word characters, not starting
\* with a digit or an underscore.
IsName(a) ==
    /\ Len(a) >= 1
    /\ \A i \in 1..Len(a) : IsWord(a[i])
    /\ ~IsDigit(a[1])
    /\ a[1] # "_VAR"

\* FINAL(arg) or FINAL_VAR(arg) as one well-formed call expression.
IsCall(a) ==
    \E p \in {<<"FINAL", "(">>, <<"FINAL", "_VAR", "(">>} :
        /\ SubSeqAt(a, 1, p)
        /\ Len(a) > Len(p)
        /\ a[Len(a)] = ")"
        /\ LET arg == Strip(SubSeq(a, Len(p) + 1, Len(a) - 1))
           IN  arg = <<>> \/ IsName(arg) \/ IsLiteral(arg)

\* What one line of the fragment is, as Python reads it: "blank", a
\* statement of StmtTok, "name", "call", or "syntax" (it does not compile).
LineKind(line) ==
    LET body == Strip(line)
    IN  IF body = <<>> THEN "blank"
        ELSE IF line[1] = "sp" THEN "syntax"
        ELSE IF Len(body) = 1 /\ body[1] \in StmtTok
        THEN (IF body[1] = "x=" THEN "syntax" ELSE body[1])
        ELSE IF IsName(body) THEN "name"
        ELSE IF IsCall(body) THEN "call"
        ELSE "syntax"

\* byte_code.errors of compile_restricted_exec(code): is there any?
CompileErrors(code) ==
    \E i \in 1..Len(SplitLines(code)) : LineKind(SplitLines(code)[i]) = "syntax"

\* Does the fragment use print?  RestrictedPython then starts the module
\* body with _print = _print_(_getattr_): a fresh collector bound in env.
UsesPrint(code) ==
    \E i \in 1..Len(code) : code[i] \in {"print(ctx)", "print(v)", "print(q)"}

CTX == <<"context">>

QRY == <<"query">>

PRINTER == <<"_print">>

\* print(value) under RestrictedPython: the text goes to the collector.
PrintTo(env, value) ==
    Bind(env, PRINTER, PrinterVal(env[PRINTER].s \o Str(value) \o <<"nl">>))

\* context[:k]
Prefix(s, k) == SubSeq(s, 1, IF Len(s) < k THEN Len(s) ELSE k)

\* context[k:]
Suffix(s, k) == SubSeq(s, k + 1, Len(s))

Fault(env, k, msg) ==
    [st |-> "fault", env |-> env, k |-> k, msg |-> msg]

\* l.append(1) on the list bound to l.
ListAppend(env) ==
    Bind(env, <<"l">>, ListVal(env[<<"l">>].n + 1))

\* exec(byte_code.code, restricted_globals, env) from line k on: the
\* statements act on env in order until the end ("done"), a raised exception
\* ("fault", leaving what ran before in env), or a call of recursive_llm
\* that starts a child Session ("call").  bridge_open says whether the
\* bridge would start a child (depth + 1 < max_depth); when it would not,
\* the call returns sentinel at once and the fragment goes on.
RECURSIVE RunFrom(_, _, _, _, _)
RunFrom(env, lines, k, bridge_open, sentinel) ==
    IF k > Len(lines) THEN [st |-> "done", env |-> env, k |-> k, msg |-> <<>>]
    ELSE LET kind == LineKind(lines[k])
             name == Strip(lines[k])
             V == <<"v">>
         IN  CASE kind = "blank" ->
                    RunFrom(env, lines, k + 1, bridge_open, sentinel)
               [] kind = "name" ->
                    IF name \in DOMAIN env
                    THEN RunFrom(env, lines, k + 1, bridge_open, sentinel)
                    ELSE Fault(env, k, <<"name '">> \o name
                                           \o <<"' is not defined">>)
               [] kind = "call" ->
                    Fault(env, k, <<"name 'FINAL...' is not defined">>)
               [] kind = "v=ctx[:K]" ->
                    RunFrom(Bind(env, V, StrVal(Prefix(Str(env[CTX]),
                                                       SliceLen))),
                            lines, k + 1, bridge_open, sentinel)
               [] kind = "ctx=ctx[:K]" ->
                    RunFrom(Bind(env, CTX, StrVal(Prefix(Str(env[CTX]),
                                                         SliceLen))),
                            lines, k + 1, bridge_open, sentinel)
               [] kind = "v=ctx[K:]" ->
                    RunFrom(Bind(env, V, StrVal(Suffix(Str(env[CTX]),
                                                       SliceLen))),
                            lines, k + 1, bridge_open, sentinel)
               [] kind = "n=len(ctx)" ->
                    RunFrom(Bind(env, <<"n">>, IntVal(Len(Str(env[CTX])))),
                            lines, k + 1, bridge_open, sentinel)
               [] kind = "v=1/0" -> Fault(env, k, <<"division by zero">>)
               [] kind = "n=int(ctx)" ->
                    LET c == Str(env[CTX])
                    IN  IF c # <<>> /\ \A i \in 1..Len(c) : IsDigit(c[i])
                        THEN RunFrom(Bind(env, <<"n">>, ObjVal("<int>")),
                                     lines, k + 1, bridge_open, sentinel)
                        ELSE Fault(env, k,
                                   <<"invalid literal for int() with base 10: ",
                                     "sq">> \o c \o <<"sq">>)
               [] kind = "import os" ->
                    Fault(env, k, <<"__import__ not found">>)
               [] kind = "v=os.listdir()" ->
                    RunFrom(Bind(env, V, ObjVal("<directory listing>")),
                            lines, k + 1, bridge_open, sentinel)
               [] kind = "l=[]" ->
                    RunFrom(Bind(env, <<"l">>, ListVal(0)), lines, k + 1,
                            bridge_open, sentinel)
               [] kind = "l.append(1)" ->
                    IF <<"l">> \in DOMAIN env
                    THEN RunFrom(ListAppend(env), lines, k + 1, bridge_open,
                                 sentinel)
                    ELSE Fault(env, k, <<"name '", "l", "' is not defined">>)
               [] kind = "print(ctx)" ->
                    RunFrom(PrintTo(env, env[CTX]), lines, k + 1,
                            bridge_open, sentinel)
               [] kind = "print(q)" ->
                    RunFrom(PrintTo(env, env[QRY]), lines, k + 1,
                            bridge_open, sentinel)
               [] kind = "print(v)" ->
                    IF V \in DOMAIN env
                    THEN RunFrom(PrintTo(env, env[V]), lines, k + 1,
                                 bridge_open, sentinel)
                    ELSE Fault(env, k, <<"name '", "v", "' is not defined">>)
               [] kind = "w=rec(v)" ->
                    IF V \notin DOMAIN env
                    THEN Fault(env, k, <<"name '", "v", "' is not defined">>)
                    ELSE IF bridge_open
                    THEN [st |-> "call", env |-> env, k |-> k, msg |-> <<>>]
                    ELSE RunFrom(Bind(env, <<"w">>, StrVal(sentinel)),
                                 lines, k + 1, bridge_open, sentinel)
               [] OTHER -> Fault(env, k, <<"invalid syntax">>)

\* The keywords whose presence in the last line (as a substring) stops
\* execute from evaluating it once more: '=', 'import', 'def', 'class',
\* 'if', 'for', 'while', 'with'.  The identifier classified holds two of
\* them.
HasKeyword(tok) == tok \in {"v=ctx[:K]", "n=len(ctx)", "v=1/0", "import os",
                            "w=rec(v)", "x=", "v=os.listdir()", "n=int(ctx)",
                            "ctx=ctx[:K]", "v=ctx[K:]", "classified",
                            "l=[]"}

\* The value execute adds for the last line: str(eval(last_line)) + '\n'
\* when the line holds no keyword and evaluates to a value other than None;
\* nothing when eval raises (print is no builtin of the sandbox's globals).
LastLineValue(code, env) ==
    LET lines == SplitLines(Strip(code))
        last == Strip(lines[Len(lines)])
    IN  IF last = <<>> \/ (\E i \in 1..Len(last) : HasKeyword(last[i]))
        THEN <<>>
        ELSE IF LineKind(last) = "name" /\ last \in DOMAIN env
        THEN Str(env[last]) \o <<"nl">>
        ELSE <<>>

\* The Environment after eval(last_line, restricted_globals, env): the
\* line is evaluated once more when it holds no keyword, and a call on it
\* acts once more (an exception of it is swallowed).
LastLineEffect(code, env) ==
    LET lines == SplitLines(Strip(code))
        last == Strip(lines[Len(lines)])
    IN  IF last = <<"l.append(1)">> /\ <<"l">> \in DOMAIN env
        THEN ListAppend(env) ELSE env

NO_CODE == <<"No code to execute">>

NO_OUTPUT == <<"Code executed successfully (no output)">>

\* A variant whose marker states the length shown, not the length captured.
TruncatedShownLength(output, budget) ==
    SubSeq(output, 1, budget)
        \o <<"nl", "nl", "[Output truncated: ">> \o Digits(budget)
        \o <<" chars total, showing first ">> \o Digits(budget) \o <<"]">>

\* The truncated form of an output longer than the budget.
Truncated(output, budget) ==
    SubSeq(output, 1, budget)
        \o <<"nl", "nl", "[Output truncated: ">> \o Digits(Len(output))
        \o <<" chars total, showing first ">> \o Digits(budget) \o <<"]">>

\* What execute returns after exec: the collector's text (sys.stdout itself
\* receives nothing from sandboxed code), the last line's value, the fixed
\* message for no output, the truncation.
Observe(code, env, budget) ==
    LET printed == IF PRINTER \in DOMAIN env /\ env[PRINTER].t = "printer"
                   THEN env[PRINTER].s ELSE <<>>
        output == printed \o LastLineValue(code, env)
    IN  IF output = <<>> THEN NO_OUTPUT
        ELSE IF Len(output) > budget THEN Truncated(output, budget)
        ELSE Strip(output)

\* A returned observation, a raised REPLError, or a suspended call.
Returned(text, env) == [st |-> "ok", text |-> text, env |-> env, k |-> 0]

Raised(text, env) ==
    [st |-> "REPLError", text |-> text, env |-> env, k |-> 0]

\* The end of execute once exec has run to r: the except clause wraps every
\* exception raised inside the try as REPLError("Execution error: ...").
Finish(code, r, budget) ==
    CASE r.st = "done" ->
            LET env == LastLineEffect(code, r.env)
            IN  Returned(Observe(code, env, budget), env)
      [] r.st = "fault" -> Raised(<<"Execution error: ">> \o r.msg, r.env)
      [] OTHER -> [st |-> "call", text |-> <<>>, env |-> r.env, k |-> r.k]

\* A variant of execute without the early return for empty code.
execute_runs_empty_code(text, env, budget, bridge_open, sentinel) ==
    LET code == _extract_code(text)
    IN  IF Strip(code) = <<>> THEN Returned(NO_OUTPUT, env)
        ELSE IF CompileErrors(code)
        THEN Raised(<<"Execution error: ", "Compilation error: ",
                      "invalid syntax">>, env)
        ELSE Finish(code,
                    RunFrom(IF UsesPrint(code)
                            THEN Bind(env, PRINTER, PrinterVal(<<>>))
                            ELSE env,
                            SplitLines(code), 1, bridge_open, sentinel),
                    budget)

\* REPLExecutor.execute(code, env) up to its return, its raise, or the
\* first call that starts a child Session.
execute(text, env, budget, bridge_open, sentinel) ==
    LET code == _extract_code(text)
    IN  IF Strip(code) = <<>> THEN Returned(NO_CODE, env)
        ELSE IF CompileErrors(code)
        THEN Raised(<<"Execution error: ", "Compilation error: ",
                      "invalid syntax">>, env)
        ELSE Finish(code,
                    RunFrom(IF UsesPrint(code)
                            THEN Bind(env, PRINTER, PrinterVal(<<>>))
                            ELSE env,
                            SplitLines(code), 1, bridge_open, sentinel),
                    budget)

\* A variant in which a failed call hands its message back as a value.
execute_resume_value(text, env, k, ok, result, budget, bridge_open, sentinel) ==
    LET code == _extract_code(text)
    IN  Finish(code,
               RunFrom(Bind(env, <<"w">>, StrVal(result)),
                       SplitLines(code), k + 1, bridge_open, sentinel),
               budget)

\* execute resumed when the call at line k returns text (ok) or raises.
execute_resume(text, env, k, ok, result, budget, bridge_open, sentinel) ==
    LET code == _extract_code(text)
    IN  Finish(code,
               IF ok
               THEN RunFrom(Bind(env, <<"w">>, StrVal(result)),
                            SplitLines(code), k + 1, bridge_open, sentinel)
               ELSE Fault(env, k, result),
               budget)

----------------------------------------------------------------------------
(* prompts.py                                                              *)

\* The last three digits of a number printed with thousands separators.
Pad3(n) == <<Digit(n \div 100), Digit((n \div 10) % 10), Digit(n % 10)>>

\* f"{n:,}"
RECURSIVE FormatThousands(_)
FormatThousands(n) ==
    IF n < 1000 THEN Digits(n)
    ELSE FormatThousands(n \div 1000) \o <<",">> \o Pad3(n % 1000)

\* build_system_prompt(context_size, depth): the fixed template around the
\* two numbers.
build_system_prompt(context_size, depth) ==
    <<"You are a Recursive Language Model. [...] Size: ">>
        \o FormatThousands(context_size)
        \o <<" characters. [...] Depth: ">> \o Digits(depth)

----------------------------------------------------------------------------
(* core.py                                                                 *)

NoResult == [kind |-> "none", value |-> <<>>]

Answer(text) == [kind |-> "answer", value |-> text]

\* A raised exception: its class and str(e).
Exc(kind, text) == [kind |-> kind, value |-> text]

NoFrame == [k |-> 0, old_stdout |-> 0]

EmptyEnv == [x \in {} |-> StrVal(<<>>)]

\* RLM.__init__: the instance, with the locals of acompletion not yet set.
\* kwargs_model is the model keyword of the acompletion call ("" when the
\* call carries none), call_model the model of the latest litellm call.
\* provider stands for api_base, api_key and llm_kwargs together.
\* thread is the thread (and event loop) its acompletion runs in: 0 is the
\* caller's.
\* pc is where the instance's acompletion call stands: "idle" (not called),
\* "llm" (awaiting litellm.acompletion), "child" (inside repl.execute,
\* awaiting a recursive call), "returned", "raised".
NewRLM(model, recursive_model, provider, max_depth, max_iterations, depth) ==
    [model |-> model,
     recursive_model |-> recursive_model,
     provider |-> provider,
     thread |-> 0,
     max_depth |-> max_depth,
     max_iterations |-> max_iterations,
     depth |-> depth,
     max_output_chars |-> MaxOutputChars,
     llm_calls |-> 0,
     iterations |-> 0,
     pc |-> "idle",
     query |-> <<>>,
     context |-> <<>>,
     messages |-> <<>>,
     env |-> EmptyEnv,
     iteration |-> 0,
     kwargs_model |-> "",
     call_model |-> "",
     response |-> <<>>,
     frame |-> NoFrame,
     result |-> NoResult]

Msg(role, content) == [role |-> role, content |-> content]

\* RLM._build_repl_env
_build_repl_env(query, context) ==
    [x \in {CTX, QRY, <<"recursive_llm">>, <<"re">>} |->
        CASE x = CTX -> StrVal(context)
          [] x = QRY -> StrVal(query)
          [] x = <<"recursive_llm">> -> ObjVal("<function sync_recursive_llm>")
          [] OTHER -> ObjVal("<module 're'>")]

\* A variant that passes the document to the model with the query.
InitialMessagesWithContext(s, query, context) ==
    <<Msg("system", build_system_prompt(Len(context), s.depth)),
      Msg("user", query \o <<"nl">> \o context)>>

\* The two messages the conversation starts with.
InitialMessages(s, query, context) ==
    <<Msg("system", build_system_prompt(Len(context), s.depth)),
      Msg("user", query)>>

MaxIterationsError(s) ==
    Exc("MaxIterationsError",
        <<"Max iterations (">> \o Digits(s.max_iterations)
            \o <<") exceeded without FINAL()">>)

MaxDepthError(s) ==
    Exc("MaxDepthError",
        <<"Max recursion depth (">> \o Digits(s.max_depth)
            \o <<") exceeded">>)

\* The text recursive_llm returns instead of starting a child.
Sentinel(s) ==
    <<"Max recursion depth (">> \o Digits(s.max_depth) \o <<") reached">>

\* for iteration in range(self.max_iterations): the next pass exists.
LoopGuardOffByOne(s) == s.iteration <= s.max_iterations

LoopGuard(s) == s.iteration < s.max_iterations

\* A variant that chooses by depth only.
ChooseModelByDepth(s) == IF s.depth = 0 THEN s.model ELSE s.recursive_model

\* _call_llm: default_model by depth, kwargs.pop('model', default_model).
ChooseModel(s) ==
    IF s.kwargs_model # "" THEN s.kwargs_model
    ELSE IF s.depth = 0 THEN s.model ELSE s.recursive_model

\* A variant of the head of the loop that leaves _iterations alone.
LoopHeadStaleIterations(s) ==
    IF LoopGuard(s)
    THEN [s EXCEPT !.iteration = @ + 1,
                   !.llm_calls = @ + 1,
                   !.call_model = ChooseModel(s),
                   !.pc = "llm"]
    ELSE [s EXCEPT !.pc = "raised", !.result = MaxIterationsError(s)]

\* The head of the loop up to the await inside _call_llm: the next pass
\* starts (the counters and the model are set, the call is issued), or the
\* range is exhausted and MaxIterationsError is raised.
LoopHead(s) ==
    IF LoopGuard(s)
    THEN [s EXCEPT !.iteration = @ + 1,
                   !.iterations = s.iteration + 1,
                   !.llm_calls = @ + 1,
                   !.call_model = ChooseModel(s),
                   !.pc = "llm"]
    ELSE [s EXCEPT !.pc = "raised", !.result = MaxIterationsError(s)]

\* if self._current_depth >= self.max_depth
DepthExceededStrict(s) == s.depth > s.max_depth

DepthExceeded(s) == s.depth >= s.max_depth

\* A variant that takes the arguments as they come.
NormalizeNothing(query, context) == [query |-> query, context |-> context]

\* if query and not context: context = query; query = ""
Normalize(query, context) ==
    IF query # <<>> /\ context = <<>>
    THEN [query |-> <<>>, context |-> query]
    ELSE [query |-> query, context |-> context]

\* acompletion(query, context) from its entry to its first await: the
\* normalization of the arguments, the depth check, the environment and
\* the initial messages, the first pass of the loop.
StartRun(s, query, context) ==
    LET c == Normalize(query, context).context
        q == Normalize(query, context).query
    IN  IF DepthExceeded(s)
        THEN [s EXCEPT !.pc = "raised", !.result = MaxDepthError(s)]
        ELSE LoopHead([s EXCEPT !.query = q,
                                !.context = c,
                                !.env = _build_repl_env(q, c),
                                !.messages = InitialMessages(s, q, c),
                                !.iteration = 0])

\* The except clauses around self.repl.execute: what becomes exec_result.
CatchNothing(x) ==
    IF x.st = "ok" THEN [caught |-> TRUE, text |-> x.text]
    ELSE [caught |-> FALSE, text |-> x.text]

CatchSilent(x) ==
    IF x.st = "ok" THEN [caught |-> TRUE, text |-> x.text]
    ELSE [caught |-> TRUE, text |-> NO_OUTPUT]

Catch(x) ==
    IF x.st = "ok" THEN [caught |-> TRUE, text |-> x.text]
    ELSE [caught |-> TRUE, text |-> <<"Error: ">> \o x.text]

\* The rest of a pass once execute has ended as x (a returned observation
\* or a raised REPLError): the two messages are appended and the loop goes
\* to its next pass.
\* A variant that appends the Observation before the response.
AfterExecuteObservationFirst(s, x) ==
    LET c == Catch(x)
    IN  LoopHead([s EXCEPT
            !.env = x.env,
            !.frame = NoFrame,
            !.messages = @ \o <<Msg("user", c.text),
                                 Msg("assistant", s.response)>>])

\* A variant that rebuilds the environment after every pass.
AfterExecuteFreshEnv(s, x) ==
    LET c == Catch(x)
    IN  LoopHead([s EXCEPT
            !.env = _build_repl_env(s.query, s.context),
            !.frame = NoFrame,
            !.messages = @ \o <<Msg("assistant", s.response),
                                 Msg("user", c.text)>>])

\* A variant that restores the environment of the pass's start when
\* execute raises.
AfterExecuteRollsBack(s, x) ==
    LET c == Catch(x)
    IN  LoopHead([s EXCEPT
            !.env = IF x.st = "REPLError" THEN s.env ELSE x.env,
            !.frame = NoFrame,
            !.messages = @ \o <<Msg("assistant", s.response),
                                 Msg("user", c.text)>>])

AfterExecute(s, x) ==
    LET c == Catch(x)
    IN  IF c.caught
        THEN LoopHead([s EXCEPT
                 !.env = x.env,
                 !.frame = NoFrame,
                 !.messages = @ \o <<Msg("assistant", s.response),
                                      Msg("user", c.text)>>])
        ELSE [s EXCEPT !.env = x.env, !.frame = NoFrame, !.pc = "raised",
                       !.result = Exc(x.st, x.text)]

\* A pass that is suspended inside execute at line k, awaiting the child.
Suspend(s, x, old_stdout) ==
    [s EXCEPT !.env = x.env, !.pc = "child",
              !.frame = [k |-> x.k, old_stdout |-> old_stdout]]

\* A variant of the bridge's check that lets one more level through.
BridgeOpenOneMore(s) == ~(s.depth + 1 > s.max_depth)

\* A variant of the bridge without a depth check.
BridgeOpenAlways(s) == TRUE

\* Would recursive_llm start a child (the bridge's own depth check fails)?
BridgeOpen(s) == ~(s.depth + 1 >= s.max_depth)

\* answer = parse_response(response, repl_env), guarded by is_final.
ResolveOrEmpty(s, response) ==
    IF is_final(response)
    THEN (IF parse_response(response, s.env) # None
          THEN parse_response(response, s.env) ELSE Some(<<>>))
    ELSE None

Resolve(s, response) ==
    IF is_final(response) THEN parse_response(response, s.env) ELSE None

RunExecute(s, response) ==
    execute(response, s.env, s.max_output_chars, BridgeOpen(s), Sentinel(s))

\* A variant of the pass that executes the response's code before it
\* returns the resolved answer.
AfterResponseRunsCode(s, response, old_stdout) ==
    LET s1 == [s EXCEPT !.response = response]
        answer == Resolve(s, response)
        x == RunExecute(s, response)
    IN  IF answer # None
        THEN [s1 EXCEPT !.pc = "returned", !.result = Answer(answer.val),
                        !.env = x.env]
        ELSE IF x.st = "call" THEN Suspend(s1, x, old_stdout)
        ELSE AfterExecute(s1, x)

\* A pass from the return of _call_llm on: the terminal check, else execute
\* up to its end or to the first recursive call.
AfterResponse(s, response, old_stdout) ==
    LET s1 == [s EXCEPT !.response = response]
        answer == Resolve(s, response)
        x == RunExecute(s, response)
    IN  IF answer # None
        THEN [s1 EXCEPT !.pc = "returned", !.result = Answer(answer.val)]
        ELSE IF x.st = "call" THEN Suspend(s1, x, old_stdout)
        ELSE AfterExecute(s1, x)

\* recursive_llm(sub_query, sub_context) past its depth check: the sub-RLM
\* and its acompletion call up to its first await.
\* A variant whose sub-RLM is constructed without the parent's api_base,
\* api_key and llm_kwargs.
ChildOfNoProvider(s) ==
    StartRun([NewRLM(s.recursive_model, s.recursive_model, "default",
                     s.max_depth, s.max_iterations, s.depth + 1)
                 EXCEPT !.thread = s.thread + 1],
             Str(s.env[QRY]), Str(s.env[<<"v">>]))

\* executor.submit(asyncio.run, recursive_llm(...)): the sub-RLM's
\* acompletion runs under asyncio.run in a new worker thread.
ChildOf(s) ==
    StartRun([NewRLM(s.recursive_model, s.recursive_model, s.provider,
                     s.max_depth, s.max_iterations, s.depth + 1)
                 EXCEPT !.thread = s.thread + 1],
             Str(s.env[QRY]), Str(s.env[<<"v">>]))

Top == stack[Len(stack)]

\* A variant that answers a failed model call with another call.
OnLLMFailureRetry(s, kind) == LoopHead([s EXCEPT !.iteration = @ - 1])

\* The exception of litellm.acompletion (of class kind) leaves _call_llm
\* and acompletion: neither has a handler around the call.
OnLLMFailure(s, kind) ==
    [s EXCEPT !.pc = "raised",
              !.result = Exc(kind, <<"litellm failure">>)]

\* asyncio.run called in a thread whose event loop is running.
LoopRunningError ==
    Exc("RuntimeError",
        <<"asyncio.run() cannot be called from a running event loop">>)

\* sync_recursive_llm once the child's acompletion has ended as `child`,
\* called from a fragment that acompletion runs (a loop is running in the
\* caller's thread): future.result() returns the child's answer or raises
\* the child's exception; the except RuntimeError clause around it catches
\* an exception of that class and calls asyncio.run in the caller's own
\* thread, which raises at once.
sync_recursive_llm(child) ==
    IF child.pc = "returned" THEN [ok |-> TRUE, value |-> child.result.value]
    ELSE IF child.result.kind = "RuntimeError"
    THEN [ok |-> FALSE, value |-> LoopRunningError.value]
    ELSE [ok |-> FALSE, value |-> child.result.value]

\* RLM.stats
stats(s) ==
    [llm_calls |-> s.llm_calls, iterations |-> s.iterations,
     depth |-> s.depth]

\* The stack with its last Session replaced by s, and the child s starts
\* when s is suspended in a recursive call.
Continue(s) ==
    LET below == SubSeq(stack, 1, Len(stack) - 1)
    IN  IF s.pc = "child" THEN below \o <<s, ChildOf(s)>> ELSE below \o <<s>>

\* A variant of execute's finally clause that installs the process's
\* original stream (sys.__stdout__), not the one saved at entry.
StdoutAfterOriginal(s, old) == IF s.pc = "child" THEN s.depth + 1 ELSE 0

\* sys.stdout after a step of Session s that started with it as old: the
\* capture stream while s is suspended inside execute, else restored.
StdoutAfter(s, old) == IF s.pc = "child" THEN s.depth + 1 ELSE old

----------------------------------------------------------------------------
(* Inputs.                                                                 *)

\* The model keyword of a call: none, or an override.
KwargsModels == {"", "override"}

\* The classes of the exceptions litellm.acompletion raises: one of the
\* provider library's own, or a RuntimeError.
LLMFailures == {"LLMError", "RuntimeError"}

\* api_base, api_key and llm_kwargs given to the constructor of the
\* top-level instance ("default" stands for none given).
Provider == "custom"

Docs == {<<"a", "b", "a">>, <<"b">>}

Queries == {<<>>, <<"a", "a">>}

FINAL_VAR(name) == <<"FINAL", "_VAR", "(">> \o name \o <<")">>

FINAL(q, text) == <<"FINAL", "(">> \o q \o text \o q \o <<")">>

\* A fragment that slices the document and hands the slice to a recursive
\* call.
CallChild == <<"v=ctx[:K]", "nl", "w=rec(v)">>

\* A fragment that hands what follows the slice to a recursive call: the
\* empty text when the document is short.
CallChildRest == <<"v=ctx[K:]", "nl", "w=rec(v)">>

\* Code that rebinds v and calls recursive_llm, with a terminal statement
\* on its last line.
CodeThenFinal == CallChildRest \o <<"nl">> \o FINAL_VAR(<<"v">>)

\* The texts the model-call collaborator answers with.
Responses ==
    {<<"v=ctx[:K]">>,
     <<"n=len(ctx)", "nl", "print(ctx)">>,
     <<"v=1/0">>,
     <<"import os">>,
     <<"x=">>,
     <<"v">>,
     CallChild,
     CallChildRest,
     CodeThenFinal,
     FINAL_VAR(<<"v">>),
     FINAL_VAR(<<"n">>),
     FINAL_VAR(<<"u">>),
     FINAL(DQ, <<"a">>),
     FINAL(DQ, <<>>)}

\* A text with one FINAL(q x q) statement: pre FINAL w1 ( w2 q x q ) post.
Src(form, pre, w1, w2, q, x, post) ==
    [form |-> form, pre |-> pre, w1 |-> w1, w2 |-> w2, q |-> q, x |-> x,
     post |-> post]

NoSrc == Src("raw", <<>>, <<>>, <<>>, <<>>, <<>>, <<>>)

\* The text a Src stands for; x is the name for the form "var", and the
\* whole text for the form "raw".
TextOf(src) ==
    CASE src.form = "final" ->
            src.pre \o <<"FINAL">> \o src.w1 \o <<"(">> \o src.w2 \o src.q
                \o src.x \o src.q \o <<")">> \o src.post
      [] src.form = "var" ->
            src.pre \o <<"FINAL", "_VAR">> \o src.w1 \o <<"(">> \o src.w2
                \o src.x \o src.q \o <<")">> \o src.post
      [] OTHER -> src.x

Blanks == {<<>>, <<"sp">>, <<"nl", "sp">>}

QuoteStyles == {DQ, SQ, TDQ, TSQ}

\* Answers: empty, one word, several lines with blanks around them.
Contents == {<<>>, <<"a">>, <<"sp", "a", "nl", "sp", "b", "nl">>}

\* Text before the statement (no terminal marker in it).
Pres == {<<>>, <<"a", "nl">>, <<"dq", "a", "dq", "sp">>}

\* Text after the statement.
Posts == {<<>>, <<"nl", "b">>, <<"sp", "dq", "dq", "dq">>,
          <<"nl", "sq", "sq", "sq", "a", "sq", "sq", "sq">>,
          <<"nl", "FINAL", "_VAR", "(", "v", ")">>}

Names == {<<"v">>, <<"a", "b">>, <<"n">>, <<"u">>, <<>>}

RawTok == {"FINAL", "_VAR", "(", ")", "dq", "sq", "sp", "a", "v"}

RawTexts == UNION {[1..k -> RawTok] : k \in 0..MaxRawLen}

Srcs ==
    {Src("final", pre, w1, w2, q, x, post) :
        pre \in Pres, w1 \in {<<>>, <<"sp">>}, w2 \in {<<>>, <<"sp">>},
        q \in QuoteStyles, x \in Contents, post \in Posts}
    \cup {Src("var", pre, w1, w2, q, x, post) :
        pre \in {<<>>, <<"a", "nl">>}, w1 \in Blanks, w2 \in {<<>>, <<"sp">>},
        q \in {<<>>, <<"sp">>}, x \in Names,
        post \in {<<>>, <<"nl", "FINAL", "_VAR", "(", "v", ")">>}}
    \cup {Src("raw", <<>>, <<>>, <<>>, <<>>, x, <<>>) : x \in RawTexts}

\* Environments handed to the parser.
Envs ==
    {EmptyEnv,
     [x \in {<<"v">>} |-> StrVal(<<"a", "sp", "b">>)],
     [x \in {<<"v">>, <<"a", "b">>, <<"n">>} |->
        IF x = <<"v">> THEN StrVal(<<>>)
        ELSE IF x = <<"n">> THEN IntVal(120) ELSE IntVal(7)]}

----------------------------------------------------------------------------
(* The parser applied to a text and an environment.                        *)

ParserInit ==
    /\ \E src \in Srcs : p_src = src /\ p_text = TextOf(src)
    /\ p_env \in Envs
    /\ p_op = "none"
    /\ p_out = None
    /\ stack = <<>>
    /\ sys_stdout = 0

ApplyExtractFinal ==
    /\ p_op = "none"
    /\ p_op' = "extract_final"
    /\ p_out' = extract_final(p_text)
    /\ UNCHANGED <<p_src, p_text, p_env, rlm_vars>>

ApplyExtractFinalVar ==
    /\ p_op = "none"
    /\ p_op' = "extract_final_var"
    /\ p_out' = extract_final_var(p_text, p_env)
    /\ UNCHANGED <<p_src, p_text, p_env, rlm_vars>>

ApplyIsFinal ==
    /\ p_op = "none"
    /\ p_op' = "is_final"
    /\ p_out' = is_final(p_text)
    /\ UNCHANGED <<p_src, p_text, p_env, rlm_vars>>

ApplyParseResponse ==
    /\ p_op = "none"
    /\ p_op' = "parse_response"
    /\ p_out' = parse_response(p_text, p_env)
    /\ UNCHANGED <<p_src, p_text, p_env, rlm_vars>>

ParserNext ==
    \/ ApplyExtractFinal
    \/ ApplyExtractFinalVar
    \/ ApplyIsFinal
    \/ ApplyParseResponse

ParserSpec == ParserInit /\ [][ParserNext]_vars

----------------------------------------------------------------------------
(* The executor applied to a fragment, an environment and a budget.        *)

\* One line of a fragment.
CodeLines ==
    {<<t>> : t \in StmtTok} \cup {<<"v">>, <<"u">>, <<"classified">>, <<>>}

\* Fragments of one or two lines, bare or in a fenced block.
Fragments ==
    CodeLines
    \cup {a \o <<"nl">> \o b : a \in CodeLines, b \in CodeLines}
    \cup {<<FENCE, "python", "nl">> \o a \o <<"nl", FENCE>> :
            a \in CodeLines}

\* A document longer than every budget of the model.
LongDoc == <<"a", "b", "a", "b", "a", "b", "a">>

\* Environments handed to execute: as built for a Session, with v bound
\* by an earlier fragment, with classified bound by an earlier fragment,
\* with the collector of an earlier print, and as built for a Session with
\* a long document.
ReplEnvs ==
    LET e == _build_repl_env(<<>>, <<"a", "b", "a">>)
    IN  {e,
         Bind(e, <<"v">>, StrVal(<<"a", "b">>)),
         Bind(e, <<"classified">>, StrVal(<<"a", "b">>)),
         Bind(e, PRINTER, PrinterVal(<<"b", "nl">>)),
         _build_repl_env(<<>>, LongDoc)}

\* What recursive_llm returns in the harness: the instance is at its last
\* depth (max_depth = 1), so the bridge answers with the sentinel.
ReplSentinel == Sentinel([max_depth |-> 1])

ReplInit ==
    /\ p_src = NoSrc
    /\ p_text \in Fragments
    /\ p_env \in ReplEnvs
    /\ p_op = "none"
    /\ p_out = None
    /\ stack = <<>>
    /\ sys_stdout = 0

\* REPLExecutor(max_output_chars = budget).execute(p_text, p_env)
ApplyExecute(budget) ==
    /\ p_op = "none"
    /\ p_op' = "execute"
    /\ LET x == execute(p_text, p_env, budget, FALSE, ReplSentinel)
       IN  p_out' = [budget |-> budget, st |-> x.st, text |-> x.text,
                     env |-> x.env]
    /\ UNCHANGED <<p_src, p_text, p_env, rlm_vars>>

ReplNext == \E budget \in 1..MaxOutputChars : ApplyExecute(budget)

ReplSpec == ReplInit /\ [][ReplNext]_vars

----------------------------------------------------------------------------
(* _extract_code applied to texts laid out as prose and fenced blocks.     *)

\* A fenced block of a text: tagged with python or not, closed or not.
Block(present, tag, body, closed) ==
    [present |-> present, tag |-> tag, body |-> body, closed |-> closed]

NoBlock == Block(FALSE, FALSE, <<>>, FALSE)

BlockText(b) ==
    IF ~b.present THEN <<>>
    ELSE <<FENCE>> \o (IF b.tag THEN <<"python">> ELSE <<>>) \o <<"nl">>
            \o b.body \o <<"nl">>
            \o (IF b.closed THEN <<FENCE>> ELSE <<>>)

\* The text of a layout: prose, a block, prose, a block, prose.
LayoutText(l) ==
    l.pre \o BlockText(l.first) \o l.mid \o BlockText(l.second) \o l.post

ExtractBodies == {<<"v=ctx[:K]">>, <<"print(ctx)">>, <<>>}

\* Layouts: the first block, when present, is closed; the second one may
\* be left open.
Layouts ==
    [pre : {<<>>, <<"u", "nl">>},
     first : {NoBlock} \cup {Block(TRUE, t, b, TRUE) :
                                t \in BOOLEAN, b \in ExtractBodies},
     mid : {<<>>, <<"nl", "u", "nl">>},
     second : {NoBlock} \cup {Block(TRUE, t, b, c) :
                                t \in BOOLEAN, b \in ExtractBodies,
                                c \in BOOLEAN},
     post : {<<>>, <<"nl", "u">>}]

ExtractInit ==
    /\ \E l \in Layouts : p_src = l /\ p_text = LayoutText(l)
    /\ p_env = _build_repl_env(<<>>, <<"a", "b", "a">>)
    /\ p_op = "none"
    /\ p_out = None
    /\ stack = <<>>
    /\ sys_stdout = 0

\* repl._extract_code(p_text)
ApplyExtractCode ==
    /\ p_op = "none"
    /\ p_op' = "_extract_code"
    /\ p_out' = _extract_code(p_text)
    /\ UNCHANGED <<p_src, p_text, p_env, rlm_vars>>

\* repl.execute(p_text, p_env)
ApplyExecuteLayout ==
    /\ p_op = "none"
    /\ p_op' = "execute"
    /\ LET x == execute(p_text, p_env, MaxOutputChars, FALSE, ReplSentinel)
       IN  p_out' = [st |-> x.st, text |-> x.text, env |-> x.env]
    /\ UNCHANGED <<p_src, p_text, p_env, rlm_vars>>

ExtractNext == ApplyExtractCode \/ ApplyExecuteLayout

ExtractSpec == ExtractInit /\ [][ExtractNext]_vars

----------------------------------------------------------------------------
(* The orchestrator's actions.                                             *)

Init ==
    /\ \E md \in 1..MaxDepthCfg, mi \in 0..MaxIterationsCfg,
          d \in 0..MaxStartDepth :
          /\ md * mi <= MaxChainPasses
          /\ stack = <<NewRLM("root", "rec", Provider, md, mi, d)>>
    /\ sys_stdout = 0
    /\ p_src = NoSrc
    /\ p_text = <<>>
    /\ p_env = EmptyEnv
    /\ p_op = "none"
    /\ p_out = None

\* await rlm.acompletion(query, context, **kwargs) on the top-level
\* instance, with model = kw among the keywords when kw is not "".
Acompletion(query, context, kw) ==
    /\ Len(stack) = 1
    /\ Top.pc = "idle"
    /\ query # <<>> \/ context # <<>>
    /\ stack' = <<StartRun([Top EXCEPT !.kwargs_model = kw], query, context)>>
    /\ UNCHANGED <<sys_stdout, parser_vars>>

\* rlm.completion(query, context, **kwargs) on the top-level instance: the
\* arguments are normalized and handed to acompletion under asyncio.run.
Completion(query, context, kw) ==
    /\ Len(stack) = 1
    /\ Top.pc = "idle"
    /\ query # <<>> \/ context # <<>>
    /\ LET n == Normalize(query, context)
       IN  stack' = <<StartRun([Top EXCEPT !.kwargs_model = kw],
                               n.query, n.context)>>
    /\ UNCHANGED <<sys_stdout, parser_vars>>

\* litellm.acompletion returns response to the running Session, which
\* runs its pass to the next await, to its end, or into a recursive call.
LLMReturns(response) ==
    /\ Top.pc = "llm"
    /\ LET s == AfterResponse(Top, response, sys_stdout)
       IN  /\ stack' = Continue(s)
           /\ sys_stdout' = StdoutAfter(s, sys_stdout)
    /\ UNCHANGED parser_vars

\* litellm.acompletion raises: the exception leaves acompletion as it is.
LLMFails ==
    /\ Top.pc = "llm"
    /\ \E kind \in LLMFailures :
          stack' = [stack EXCEPT ![Len(stack)] = OnLLMFailure(Top, kind)]
    /\ UNCHANGED <<sys_stdout, parser_vars>>

\* The child's acompletion has ended: recursive_llm returns its answer to
\* the parent's fragment, or raises its exception there, and the parent's
\* execute and pass go on.
ChildEnds ==
    /\ Len(stack) >= 2
    /\ Top.pc \in {"returned", "raised"}
    /\ LET parent == stack[Len(stack) - 1]
           b == sync_recursive_llm(Top)
           x == execute_resume(parent.response, parent.env, parent.frame.k,
                               b.ok, b.value,
                               parent.max_output_chars, BridgeOpen(parent),
                               Sentinel(parent))
           s == IF x.st = "call"
                THEN Suspend(parent, x, parent.frame.old_stdout)
                ELSE AfterExecute(parent, x)
           below == SubSeq(stack, 1, Len(stack) - 2)
       IN  /\ stack' = (IF s.pc = "child" THEN below \o <<s, ChildOf(s)>>
                        ELSE below \o <<s>>)
           /\ sys_stdout' = StdoutAfter(s, parent.frame.old_stdout)
    /\ UNCHANGED parser_vars

Next ==
    \/ \E q \in Queries, c \in Docs \cup {<<>>}, kw \in KwargsModels :
          Acompletion(q, c, kw)
    \/ \E q \in Queries, c \in Docs \cup {<<>>}, kw \in KwargsModels :
          Completion(q, c, kw)
    \/ \E r \in Responses : LLMReturns(r)
    \/ LLMFails
    \/ ChildEnds

Spec == Init /\ [][Next]_vars

\* acompletion has ended: it returned its answer or an exception left it.
Ended(s) == s.pc \in {"returned", "raised"}

\* The innermost Session awaits somebody else: the model-call collaborator
\* (await self._call_llm), or the parent's fragment that takes the outcome
\* of an ended child (future.result()).  These are the guards of
\* LLMReturns, LLMFails and ChildEnds.
Waiting == Top.pc = "llm" \/ (Len(stack) >= 2 /\ Ended(Top))

\* Every model call is answered and every ended child hands its outcome
\* back: weak fairness of the awaited step, written by its definition
\* (always eventually either nobody is awaited or an awaited step is taken).
Answered == []<>(~Waiting) \/ []<><<Waiting>>_vars

\* The orchestrator under the assumption that each model call returns and
\* each executed fragment terminates.
LiveSpec == Init /\ [][Next]_vars /\ Answered

----------------------------------------------------------------------------
(* Claims about the parser (checked under ParserSpec).                     *)

\* C8: resolving FINAL_VAR(name) returns str(env[name]) when name is bound
\* and None when it is not; for any text and environment the result is None
\* or the string form of a bound variable (nothing else, no failure).
C8_FinalVarResolves ==
    p_op = "extract_final_var" =>
        /\ (p_src.form = "var" /\ p_src.x # <<>>) =>
              p_out = (IF p_src.x \in DOMAIN p_env
                       THEN Some(Str(p_env[p_src.x])) ELSE None)
        /\ \/ p_out = None
           \/ \E name \in DOMAIN p_env : p_out = Some(Str(p_env[name]))

\* A bound int resolved to its decimal digits, and an unbound name to None.
C8_Witness ==
    /\ p_op = "extract_final_var"
    /\ p_src.form = "var"
    /\ p_src.x = <<"n">>
    /\ p_out = Some(<<"1", "2", "0">>)

\* C9: for a text pre FINAL(q X q) post, in any of the four quote styles and
\* with any text before and after, extract_final returns X stripped.
C9_ExactAnswer ==
    (p_op = "extract_final" /\ p_src.form = "final") =>
        p_out = Some(Strip(p_src.x))

\* C10 as claimed: the styles are tried in the order double quote, single
\* quote, triple double, triple single, and the first that matches decides.
C10_ClaimedOrder ==
    p_op = "extract_final" =>
        p_out = FirstMatch(p_text, patterns_spec_order, 1)

\* The group of the pattern for quote q (greedy for the triple quotes),
\* stripped, or None.
Try(text, q) ==
    LET m == SearchPattern(text, [quote |-> q, greedy |-> Len(q) = 3])
    IN  IF m = None THEN None ELSE Some(Strip(m.val))

\* C10 as amended: the styles are tried in the order triple double, triple
\* single, double quote, single quote, and the first that matches decides.
C10_CodeOrder ==
    p_op = "extract_final" =>
        p_out = (IF Try(p_text, TDQ) # None THEN Try(p_text, TDQ)
                 ELSE IF Try(p_text, TSQ) # None THEN Try(p_text, TSQ)
                 ELSE IF Try(p_text, DQ) # None THEN Try(p_text, DQ)
                 ELSE Try(p_text, SQ))

\* A text that both the triple-double and the double pattern match, with
\* different groups: the triple one decided.
C10_Witness ==
    /\ p_op = "extract_final"
    /\ Try(p_text, TDQ) # None
    /\ Try(p_text, DQ) # None
    /\ Try(p_text, TDQ) # Try(p_text, DQ)
    /\ p_out = Try(p_text, TDQ)

----------------------------------------------------------------------------
(* Claims about the orchestrator (checked under Spec).                     *)

Sessions == {stack[i] : i \in DOMAIN stack}

IsRaised(s, kind) == s.pc = "raised" /\ s.result.kind = kind

\* The text starts with the prefix acompletion puts before a fault.
IsErrorText(t) == t # <<>> /\ t[1] = "Error: "

HasTurn(s, response) ==
    \E i \in DOMAIN s.messages : s.messages[i] = Msg("assistant", response)

\* C1: a Session whose responses never resolve makes exactly max_iterations
\* model calls and then fails with MaxIterationsError: never more calls
\* than max_iterations, the error exactly after max_iterations appended
\* passes, and after that many unresolved passes no answer and no call.
C1_ExactlyNCalls ==
    \A s \in Sessions :
        /\ s.llm_calls <= s.max_iterations
        /\ IsRaised(s, "MaxIterationsError") =>
              /\ s.llm_calls = s.max_iterations
              /\ Len(s.messages) = 2 + 2 * s.max_iterations
        /\ (s.messages # <<>> /\ Len(s.messages) = 2 + 2 * s.max_iterations)
              => IsRaised(s, "MaxIterationsError")

\* Two unresolved passes of a top-level Session with max_iterations = 2.
C1_Witness ==
    /\ IsRaised(stack[1], "MaxIterationsError")
    /\ stack[1].max_iterations = 2
    /\ stack[1].llm_calls = 2
    /\ Len(stack[1].messages) = 6

\* C2: on an instance with depth >= max_depth, acompletion fails with
\* MaxDepthError before any model call: both counters are 0 and no message
\* was built; no instance (top-level or child) at such a depth ever runs.
C2_DepthCheckedFirst ==
    \A s \in Sessions :
        s.depth >= s.max_depth =>
            /\ s.pc \in {"idle", "raised"}
            /\ s.pc = "raised" => s.result.kind = "MaxDepthError"
            /\ s.llm_calls = 0
            /\ s.iterations = 0
            /\ s.messages = <<>>

\* A top-level instance constructed at a non-zero depth equal to max_depth.
C2_Witness ==
    /\ IsRaised(stack[1], "MaxDepthError")
    /\ stack[1].depth > 0
    /\ stack[1].depth = stack[1].max_depth
    /\ stack[1].llm_calls = 0

\* C3 as claimed: no message of a sequence passed to the model-call
\* collaborator contains the document verbatim.
C3_NoDocInMessages ==
    \A s \in Sessions :
        s.pc = "llm" =>
            \A i \in DOMAIN s.messages :
                ~Contains(s.messages[i].content, s.context)

\* C3 as amended: the Orchestrator itself never copies the document into a
\* message: in every sequence passed to the collaborator the first message
\* is the system prompt, which depends on the document's length and the
\* depth only, and the second is the query as normalized; so the document
\* is in one of the two only when the query holds it.
C3_InitialMessages ==
    \A s \in Sessions :
        s.pc = "llm" =>
            /\ Len(s.messages) >= 2
            /\ s.messages[1] =
                  Msg("system", build_system_prompt(Len(s.context), s.depth))
            /\ s.messages[2] = Msg("user", s.query)
            /\ Contains(s.messages[2].content, s.context)
                  => Contains(s.query, s.context)

\* A sequence about to be passed whose Observation holds the document.
C3_Witness ==
    /\ stack[1].pc = "llm"
    /\ Len(stack[1].messages) = 4
    /\ stack[1].messages[4] = Msg("user", stack[1].context)
    /\ stack[1].context = <<"a", "b", "a">>

\* The pass of the running Session in which r is the response and execute
\* raises REPLError.
FaultingPass(r) ==
    /\ Top.pc = "llm"
    /\ Len(stack') >= Len(stack)
    /\ stack'[Len(stack)].response = r
    /\ LLMReturns(r)
    /\ Resolve(Top, r) = None
    /\ RunExecute(Top, r).st = "REPLError"

UnresolvedPass(r) ==
    /\ Top.pc = "llm"
    /\ is_final(r)
    /\ Len(stack') >= Len(stack)
    /\ stack'[Len(stack)].response = r
    /\ LLMReturns(r)
    /\ parse_response(r, Top.env) = None

\* C6: a response whose terminal marker does not resolve is executed as
\* code, its Observation appended, and the loop goes on; a Session returns
\* only what the resolution of its last response gave.
C6_UnresolvedFallsThrough ==
    /\ [](\A s \in Sessions :
            s.pc = "returned" =>
                parse_response(s.response, s.env) = Some(s.result.value))
    /\ [][\A r \in Responses :
            UnresolvedPass(r) =>
                LET s1 == stack'[Len(stack)]
                    x == RunExecute(Top, r)
                IN  /\ s1.pc # "returned"
                    /\ s1.response = r
                    /\ x.st # "call" =>
                          /\ s1.env = x.env
                          /\ s1.messages = Top.messages \o
                                <<Msg("assistant", r),
                                  Msg("user", IF x.st = "ok" THEN x.text
                                              ELSE <<"Error: ">> \o x.text)>>
                          /\ \/ s1.pc = "llm"
                             \/ /\ Top.iteration = Top.max_iterations
                                /\ IsRaised(s1, "MaxIterationsError")]_vars

\* FINAL_VAR of an unbound name in turn 1, and the second call issued.
C6_Witness ==
    /\ stack[1].pc = "llm"
    /\ stack[1].llm_calls = 2
    /\ stack[1].messages[3] = Msg("assistant", FINAL_VAR(<<"u">>))
    /\ IsErrorText(stack[1].messages[4].content)

\* A fragment of the Session, finished or suspended in its recursive call,
\* has assigned v another value than the slice context[:K].
Reassigned(s) ==
    \E r \in {CallChildRest, CodeThenFinal} :
        \/ HasTurn(s, r)
        \/ s.pc = "child" /\ s.response = r

\* C7: the Environment persists across the iterations of a Session: what
\* an executed fragment bound stays bound, with its value, in every later
\* iteration (v as long as no fragment assigns it another value), no
\* binding ever disappears, and FINAL_VAR(name) in a later turn returns the
\* string form of the value.
C7_EnvironmentPersists ==
    /\ [](\A s \in Sessions :
            /\ (HasTurn(s, <<"v=ctx[:K]">>) /\ ~Reassigned(s)) =>
                  /\ <<"v">> \in DOMAIN s.env
                  /\ s.env[<<"v">>] = StrVal(Prefix(s.context, SliceLen))
            /\ HasTurn(s, <<"n=len(ctx)", "nl", "print(ctx)">>) =>
                  /\ <<"n">> \in DOMAIN s.env
                  /\ s.env[<<"n">>] = IntVal(Len(s.context))
            /\ (/\ s.pc = "returned"
                /\ s.response = FINAL_VAR(<<"v">>)
                /\ ~Reassigned(s)) =>
                  s.result = Answer(Prefix(s.context, SliceLen))
            /\ (s.pc = "returned" /\ s.response = FINAL_VAR(<<"n">>)) =>
                  s.result = Answer(Digits(Len(s.context))))
    /\ [][\A i \in DOMAIN stack :
            (i \in DOMAIN stack' /\ stack[i].pc \in {"llm", "child"}) =>
                \A name \in DOMAIN stack[i].env :
                    name \in DOMAIN stack'[i].env]_vars

\* "Hello World Example" scaled: document aba, turn 1 v = context[:2],
\* turn 2 FINAL_VAR(v), answer ab.
C7_Witness ==
    /\ stack[1].pc = "returned"
    /\ stack[1].context = <<"a", "b", "a">>
    /\ stack[1].llm_calls = 2
    /\ stack[1].messages[3] = Msg("assistant", <<"v=ctx[:K]">>)
    /\ stack[1].response = FINAL_VAR(<<"v">>)
    /\ stack[1].result = Answer(<<"a", "b">>)

----------------------------------------------------------------------------
(* Further claims about the parser (checked under ParserSpec).             *)

\* The text holds the keyword of a terminal form directly followed by its
\* opening parenthesis.
HasMarker(t) ==
    \E i \in 1..Len(t) :
        /\ t[i] = "FINAL"
        /\ i < Len(t)
        /\ \/ t[i + 1] = "("
           \/ i + 1 < Len(t) /\ t[i + 1] = "_VAR" /\ t[i + 2] = "("

\* C11: is_final(text) is true exactly when text contains FINAL( or
\* FINAL_VAR( : false for every text without such a marker, true whether
\* or not the marker resolves.
C11_IsFinalIsMarkerCheck ==
    p_op = "is_final" => p_out = HasMarker(p_text)

\* FINAL_VAR of an unbound name: is_final is true, the resolution gives None.
C11_Witness ==
    /\ p_op = "is_final"
    /\ p_out = TRUE
    /\ p_text = FINAL_VAR(<<"u">>)
    /\ parse_response(p_text, p_env) = None

----------------------------------------------------------------------------
(* Claims about the executor (checked under ReplSpec).                     *)

TruncationMarker(L, B) ==
    <<"nl", "nl", "[Output truncated: ">> \o Digits(L)
        \o <<" chars total, showing first ">> \o Digits(B) \o <<"]">>

\* A fragment of k lines print(context), and what it prints.
PrintContext(k) ==
    IF k = 1 THEN <<"print(ctx)">> ELSE <<"print(ctx)", "nl", "print(ctx)">>

PrintedContext(k) ==
    LET line == Str(p_env[CTX]) \o <<"nl">>
    IN  IF k = 1 THEN line ELSE line \o line

AttemptsDisallowed(text) ==
    text # <<>> /\ text[1] \in {"import os", "v=os.listdir()"}

\* C13: a fragment that attempts a disallowed capability always ends in
\* REPLError, never in a returned observation.
C13_DisallowedAlwaysFaults ==
    (p_op = "execute" /\ AttemptsDisallowed(p_text)) =>
        p_out.st = "REPLError"

----------------------------------------------------------------------------
(* Further claims about the orchestrator (checked under Spec).             *)

\* The pass of the running Session in which the fragment calls
\* recursive_llm(query, v) at the last depth (depth + 1 >= max_depth).
CallAtLastDepth ==
    /\ Top.pc = "llm"
    /\ LLMReturns(CallChild)
    /\ Top.depth + 1 >= Top.max_depth

\* C14: a call of recursive_llm in a Session with depth + 1 >= max_depth
\* returns the text "Max recursion depth (<max_depth>) reached" as a value:
\* no child Session is started, no model call is made for it, the fragment
\* ends normally and the Session goes on (or meets its iteration limit).
C14_SentinelReturned ==
    [][CallAtLastDepth =>
        LET s1 == stack'[Len(stack)]
            x == RunExecute(Top, CallChild)
        IN  /\ Len(stack') = Len(stack)
            /\ s1.env[<<"w">>] =
                  StrVal(<<"Max recursion depth (">> \o Digits(Top.max_depth)
                            \o <<") reached">>)
            /\ x.st = "ok"
            /\ ~IsErrorText(x.text)
            /\ s1.messages = Top.messages \o
                  <<Msg("assistant", CallChild), Msg("user", x.text)>>
            /\ IF Top.iteration < Top.max_iterations
               THEN s1.pc = "llm" /\ s1.llm_calls = Top.llm_calls + 1
               ELSE IsRaised(s1, "MaxIterationsError") /\
                    s1.llm_calls = Top.llm_calls]_vars

\* A top-level Session with max_depth = 1 after the fragment
\* v = context[:2]; w = recursive_llm(query, v): w holds the sentinel, no
\* child exists, and the second model call is issued.
C14_Witness ==
    /\ Len(stack) = 1
    /\ stack[1].max_depth = 1
    /\ stack[1].depth = 0
    /\ <<"w">> \in DOMAIN stack[1].env
    /\ stack[1].env[<<"w">>] =
          StrVal(<<"Max recursion depth (", "1", ") reached">>)
    /\ stack[1].pc = "llm"
    /\ stack[1].llm_calls = 2

\* The step in which a child Session that has failed hands its failure to
\* the fragment of its parent.
ChildFails ==
    /\ Len(stack) >= 2
    /\ Top.pc = "raised"
    /\ ChildEnds

\* C15: the failure of a recursive child reaches the parent as the error
\* Observation of the fragment that called it ("Error: Execution error: "
\* and the child's message): nothing is bound to the call's result, the
\* parent does not end with the child's exception, and its loop goes on to
\* the next model call (or to its own iteration limit).  A child never
\* fails with MaxDepthError.
C15_ChildFailureObserved ==
    /\ [](\A i \in DOMAIN stack :
            (i > 1 /\ stack[i].pc = "raised") =>
                stack[i].result.kind \in
                    {"MaxIterationsError"} \cup LLMFailures)
    /\ [][(ChildFails /\ Top.result.kind # "RuntimeError") =>
            LET parent == stack[Len(stack) - 1]
                p1 == stack'[Len(stack) - 1]
            IN  /\ Len(stack') = Len(stack) - 1
                /\ p1.messages = parent.messages \o
                      <<Msg("assistant", parent.response),
                        Msg("user", <<"Error: ", "Execution error: ">>
                                      \o Top.result.value)>>
                /\ <<"w">> \in DOMAIN p1.env =>
                      /\ <<"w">> \in DOMAIN parent.env
                      /\ p1.env[<<"w">>] = parent.env[<<"w">>]
                /\ IF parent.iteration < parent.max_iterations
                   THEN p1.pc = "llm" /\ p1.llm_calls = parent.llm_calls + 1
                   ELSE IsRaised(p1, "MaxIterationsError")]_vars

\* The child of the first pass ran out of iterations; the parent holds the
\* error Observation and has issued its second model call.
C15_Witness ==
    /\ Len(stack) = 1
    /\ stack[1].pc = "llm"
    /\ stack[1].llm_calls = 2
    /\ stack[1].messages[3] = Msg("assistant", CallChild)
    /\ stack[1].messages[4] =
          Msg("user", <<"Error: ", "Execution error: ", "Max iterations (",
                        "2", ") exceeded without FINAL()">>)

\* The number of passes whose two messages were appended.
Appended(s) == (Len(s.messages) - 2) \div 2

\* C16: stats follows the run and stays readable after a failure: once the
\* k-th model call is issued it reports llm_calls = k and iterations = k,
\* until the next call; a returned run reports the number of responses
\* consumed, MaxIterationsError leaves N/N, MaxDepthError leaves 0/0, and
\* depth is the depth the instance was constructed with throughout.
C16_StatsTrackRun ==
    /\ [](\A s \in Sessions :
            /\ s.pc = "idle" => stats(s).llm_calls = 0 /\ stats(s).iterations = 0
            /\ s.pc \in {"llm", "child", "returned"} =>
                  /\ stats(s).llm_calls = Appended(s) + 1
                  /\ stats(s).iterations = Appended(s) + 1
            /\ (s.pc = "raised" /\ s.result.kind \in LLMFailures) =>
                  /\ stats(s).llm_calls = Appended(s) + 1
                  /\ stats(s).iterations = Appended(s) + 1
            /\ IsRaised(s, "MaxIterationsError") =>
                  /\ stats(s).llm_calls = s.max_iterations
                  /\ stats(s).iterations = s.max_iterations
                  /\ Appended(s) = s.max_iterations
            /\ IsRaised(s, "MaxDepthError") =>
                  stats(s).llm_calls = 0 /\ stats(s).iterations = 0)
    /\ [](\A i \in DOMAIN stack :
            i > 1 => stats(stack[i]).depth = stats(stack[i - 1]).depth + 1)
    /\ [][\A i \in DOMAIN stack :
            i \in DOMAIN stack' =>
                stats(stack'[i]).depth = stats(stack[i]).depth]_vars

\* A run that consumed two responses and returned: 2 / 2 / 0.
C16_Witness ==
    /\ stack[1].pc = "returned"
    /\ stats(stack[1]) = [llm_calls |-> 2, iterations |-> 2, depth |-> 0]

\* C17: every model call of a Session at depth 0 uses the root model and
\* every call of a Session at depth > 0 the recursive model, unless the
\* acompletion call carried a model keyword, which is then used for every
\* call of that run (a child's calls carry none).
C17_ModelByDepth ==
    \A i \in DOMAIN stack :
        stack[i].llm_calls > 0 =>
            stack[i].call_model =
                (IF i = 1 /\ stack[1].kwargs_model # ""
                 THEN stack[1].kwargs_model
                 ELSE IF stack[i].depth = 0 THEN stack[1].model
                 ELSE stack[1].recursive_model)

\* A run at depth 0 with an override, suspended in a child: the parent's
\* call used the override, the child's call the recursive model.
C17_Witness ==
    /\ Len(stack) = 2
    /\ stack[1].depth = 0
    /\ stack[1].kwargs_model = "override"
    /\ stack[1].call_model = "override"
    /\ stack[2].pc = "llm"
    /\ stack[2].call_model = "rec"

\* What a Session that has started runs with.
RunsWith(s, query, context) ==
    /\ s.query = query
    /\ s.context = context
    /\ s.env[QRY] = StrVal(query)
    /\ s.env[CTX] = StrVal(context)
    /\ s.messages[2] = Msg("user", query)
    /\ s.messages[1].content =
          build_system_prompt(Len(context), s.depth)

\* C18: a call with only one of query and document non-empty runs with
\* that string as the document and the empty string as the query; a call
\* with both runs with them unchanged; completion and acompletion do the
\* same with the same arguments.
C18_Normalization ==
    [][\A q \in Queries, c \in Docs \cup {<<>>}, kw \in KwargsModels :
        /\ (Acompletion(q, c, kw) /\ stack'[1].pc = "llm") =>
              /\ (q # <<>> /\ c = <<>>) => RunsWith(stack'[1], <<>>, q)
              /\ (q = <<>> /\ c # <<>>) => RunsWith(stack'[1], <<>>, c)
              /\ (q # <<>> /\ c # <<>>) => RunsWith(stack'[1], q, c)
        /\ Completion(q, c, kw) <=> Acompletion(q, c, kw)]_vars

\* A call with the query aa alone: aa is the document, the query is empty.
C18_Witness ==
    /\ stack[1].pc = "llm"
    /\ stack[1].llm_calls = 1
    /\ RunsWith(stack[1], <<>>, <<"a", "a">>)

\* C19: a failure of the model call at iteration k ends the Session with
\* that same failure: nothing is appended for the iteration, the recorded
\* number of calls is k, and the Session makes no further call (a failed
\* Session never changes again).
C19_LLMFailureFatal ==
    /\ [][LLMFails =>
            LET s1 == stack'[Len(stack)]
            IN  /\ Len(stack') = Len(stack)
                /\ s1.pc = "raised"
                /\ s1.result.kind \in LLMFailures
                /\ s1.result.value = <<"litellm failure">>
                /\ s1.messages = Top.messages
                /\ Appended(s1) = Top.iteration - 1
                /\ s1.llm_calls = Top.iteration]_vars
    /\ [][\A i \in DOMAIN stack :
            (stack[i].pc = "raised" /\ i \in DOMAIN stack') =>
                stack'[i] = stack[i]]_vars

\* The second model call failed: one pass appended, two calls recorded.
C19_Witness ==
    /\ IsRaised(stack[1], "LLMError")
    /\ stack[1].llm_calls = 2
    /\ Len(stack[1].messages) = 4

IsPrefix(a, b) == Len(a) <= Len(b) /\ SubSeq(b, 1, Len(a)) = a

\* C20: the messages of a Session are the system message, the user message
\* with the query, then one (assistant, user) pair per finished pass in
\* order: k - 1 pairs when the k-th call is issued.  The history only grows
\* at its end, by the response of the pass and its Observation, and a
\* response that resolves is returned without being appended.
C20_HistoryShape ==
    /\ [](\A s \in Sessions :
            s.messages # <<>> =>
                /\ Len(s.messages) >= 2
                /\ s.messages[1].role = "system"
                /\ s.messages[2] = Msg("user", s.query)
                /\ \A j \in 3..Len(s.messages) :
                      s.messages[j].role =
                          (IF j % 2 = 1 THEN "assistant" ELSE "user")
                /\ s.pc = "llm" =>
                      Len(s.messages) = 2 + 2 * (s.llm_calls - 1))
    /\ [][\A r \in Responses :
            (/\ Top.pc = "llm"
             /\ Len(stack') >= Len(stack)
             /\ stack'[Len(stack)].response = r
             /\ LLMReturns(r)) =>
                LET s1 == stack'[Len(stack)]
                IN  \/ s1.pc \in {"returned", "child"} /\
                       s1.messages = Top.messages
                    \/ /\ s1.pc \in {"llm", "raised"}
                       /\ Len(s1.messages) = Len(Top.messages) + 2
                       /\ s1.messages[Len(Top.messages) + 1] =
                             Msg("assistant", r)]_vars
    /\ [][\A i \in DOMAIN stack :
            i \in DOMAIN stack' =>
                /\ IsPrefix(stack[i].messages, stack'[i].messages)
                /\ Len(stack'[i].messages) - Len(stack[i].messages)
                      \in {0, 2}]_vars

\* Two passes appended in order: v = context[:2] with no output, then the
\* bare expression v with its value.
C20_Witness ==
    /\ Len(stack[1].messages) = 6
    /\ stack[1].messages[3] = Msg("assistant", <<"v=ctx[:K]">>)
    /\ stack[1].messages[4] = Msg("user", NO_OUTPUT)
    /\ stack[1].messages[5] = Msg("assistant", <<"v">>)
    /\ stack[1].messages[6] = Msg("user", Prefix(stack[1].context, SliceLen))

----------------------------------------------------------------------------
(* Termination (checked under LiveSpec).                                   *)

\* C21: every run ends within its limits: a Session makes at most
\* max_iterations model calls, no Session that has made a model call is
\* at a depth >= max_depth, the Sessions nested at one time number at most
\* max_depth less the depth of the outermost, and a top-level call that
\* has started eventually returns or raises with no child left.
C21_TerminatesWithinLimits ==
    /\ [](\A s \in Sessions :
            /\ s.llm_calls <= s.max_iterations
            /\ s.llm_calls > 0 => s.depth < s.max_depth)
    /\ [](Len(stack) > 1 => Len(stack) <= stack[1].max_depth - stack[1].depth)
    /\ (stack[1].pc # "idle") ~> (Len(stack) = 1 /\ Ended(stack[1]))

\* A top-level run that held a child at the last depth allowed and has
\* ended after its two passes.
C21_Witness ==
    /\ Len(stack) = 1
    /\ Ended(stack[1])
    /\ stack[1].max_depth = 2
    /\ stack[1].llm_calls = 2
    /\ Len(stack[1].messages) >= 4
    /\ stack[1].messages[3] = Msg("assistant", CallChild)

----------------------------------------------------------------------------
(* Claims about the Observation and the Environment.                       *)

\* A fragment that prints nothing and whose last line is an assignment, so
\* that nothing of its own can reach its Observation.
Silent(text) ==
    LET code == _extract_code(text)
        lines == SplitLines(Strip(code))
        last == Strip(lines[Len(lines)])
    IN  /\ Strip(code) # <<>>
        /\ ~UsesPrint(code)
        /\ \E i \in 1..Len(last) : HasKeyword(last[i])

\* C22: the Observation holds only what the fragment of that pass wrote and
\* the value of its last line: in every Session, the Observation appended
\* after a fragment that prints nothing and ends in an assignment is the
\* fixed message for no output, or the message of an error.
C22_OnlyOwnOutput ==
    \A s \in Sessions :
        \A i \in 1..Appended(s) :
            LET response == s.messages[2 * i + 1].content
                observation == s.messages[2 * i + 2].content
            IN  Silent(response) =>
                    \/ observation = NO_OUTPUT
                    \/ IsErrorText(observation)

\* The Observation acompletion appends for the outcome of execute.
Observation == Catch(p_out).text

\* The longest text the truncation of execute lets through under budget
\* B: B characters of output and the marker (with a captured length of up
\* to two digits; the fixed parts of the marker count as one character
\* each).
ObservationLimit(B) == B + Len(TruncationMarker(99, B))

\* C23: every Observation has a length bounded by the budget alone, that
\* of a truncated output at most, whatever the document and the fragment:
\* captured output, last-line value, and error message alike.
C23_ObservationBounded ==
    p_op = "execute" => Len(Observation) <= ObservationLimit(p_out.budget)

\* Some line of the fragment is an import of a module.
ImportsModule(text) ==
    \E i \in 1..Len(_extract_code(text)) : _extract_code(text)[i] = "import os"

\* C24: a fragment with an import is rejected before any of its statements
\* runs: execute raises REPLError and the Environment after it is the
\* Environment before it.
C24_ImportRejectedBeforeRun ==
    (p_op = "execute" /\ ImportsModule(p_text)) =>
        /\ p_out.st = "REPLError"
        /\ p_out.env = p_env

\* The bindings every Environment is built with.
Builtin == {CTX, QRY, <<"recursive_llm">>}

\* C25: execute leaves context, query and recursive_llm bound as the
\* Environment was built: whatever the fragment, the three names are bound
\* after it to what they were bound to before it.
C25_BuiltinBindingsKept ==
    p_op = "execute" =>
        \A x \in Builtin : x \in DOMAIN p_out.env /\ p_out.env[x] = p_env[x]

----------------------------------------------------------------------------
(* Claims about child Sessions (checked under Spec).                       *)

\* The step starts a child Session: the stack grows, or the fragment of a
\* parent whose child has ended calls recursive_llm again.
ChildStarts ==
    /\ Len(stack') >= 2
    /\ \/ Len(stack') > Len(stack)
       \/ Len(stack') = Len(stack) /\ Ended(Top)

\* C26 as claimed: the child has the model names of its parent, and its
\* context is the sub-document handed to recursive_llm.
C26_ChildAsClaimed ==
    \A i \in 2..Len(stack) :
        LET parent == stack[i - 1]
            child == stack[i]
        IN  /\ child.model = parent.model
            /\ child.recursive_model = parent.recursive_model
            /\ child.context = Str(parent.env[<<"v">>])

\* C26 as amended: a child exists only under a parent suspended in a
\* recursive call at a depth d with d + 1 < max_depth; it is at depth
\* d + 1 with the parent's max_depth, max_iterations and provider settings,
\* with the parent's recursive model as both of its model names and no call
\* keywords; its query and context are the normalized (sub-query,
\* sub-document), so the sub-query is its context when the sub-document is
\* empty; it starts with the two initial messages, its own Environment and
\* counters of its first pass only; and no step of a running child changes
\* any Session below it.
C26_ChildInheritsAndIsFresh ==
    /\ [](\A i \in 2..Len(stack) :
            LET parent == stack[i - 1]
                child == stack[i]
                n == Normalize(Str(parent.env[QRY]), Str(parent.env[<<"v">>]))
            IN  /\ parent.pc = "child"
                /\ parent.depth + 1 < parent.max_depth
                /\ child.depth = parent.depth + 1
                /\ child.max_depth = parent.max_depth
                /\ child.max_iterations = parent.max_iterations
                /\ child.provider = parent.provider
                /\ child.model = parent.recursive_model
                /\ child.recursive_model = parent.recursive_model
                /\ child.kwargs_model = ""
                /\ child.query = n.query
                /\ child.context = n.context
                /\ SubSeq(child.messages, 1, 2)
                       = InitialMessages(child, n.query, n.context))
    /\ [][ChildStarts =>
            LET child == stack'[Len(stack')]
                first == IF child.max_iterations > 0 THEN 1 ELSE 0
            IN  /\ Len(child.messages) = 2
                /\ child.env = _build_repl_env(child.query, child.context)
                /\ child.llm_calls = first
                /\ child.iterations = first
                /\ child.iteration = first]_vars
    /\ [][(Len(stack) >= 2 /\ Top.pc = "llm") =>
            /\ Len(stack') >= Len(stack)
            /\ \A i \in 1..(Len(stack) - 1) : stack'[i] = stack[i]]_vars

\* A child started with the sub-query aa and an empty sub-document, so
\* that aa is its context, has made its second call while its parent is as
\* it was when the child started.
C26_Witness ==
    /\ Len(stack) = 2
    /\ stack[1].provider = "custom"
    /\ stack[1].query = <<"a", "a">>
    /\ stack[1].env[<<"v">>] = StrVal(<<>>)
    /\ stack[2].context = <<"a", "a">>
    /\ stack[2].query = <<>>
    /\ stack[2].llm_calls = 2
    /\ stack[2].pc = "llm"

\* C27: the child of a recursive call runs in a thread (with an event
\* loop) of its own, never in its parent's; and when it has ended, the
\* bridge hands its outcome to the parent's fragment: the answer as the
\* value of the call, or the child's failure as the exception of the call,
\* which becomes the parent's error Observation with the child's message.
C27_BridgeHandsOutcomeBack ==
    /\ [](\A i \in 2..Len(stack) : stack[i].thread # stack[i - 1].thread)
    /\ [][(Len(stack) >= 2 /\ Ended(Top)) =>
            LET parent == stack'[Len(stack) - 1]
            IN  /\ Len(stack') = Len(stack) - 1
                /\ Top.pc = "returned" =>
                      parent.env[<<"w">>] = StrVal(Top.result.value)
                /\ Top.pc = "raised" =>
                      parent.messages[Len(parent.messages)] =
                          Msg("user", <<"Error: ", "Execution error: ">>
                                        \o Top.result.value)]_vars

\* C29: execute never returns the empty text: a fragment without output
\* gets the fixed message.
C29_ObservationNeverEmpty ==
    (p_op = "execute" /\ p_out.st = "ok") => p_out.text # <<>>

\* The last line of the fragment, when it is an identifier bound (to a
\* text that is not empty) once the fragment has run.
LastName(text, env) ==
    LET lines == SplitLines(Strip(_extract_code(text)))
        last == Strip(lines[Len(lines)])
    IN  IF LineKind(last) = "name" /\ last \in DOMAIN env
           /\ Str(env[last]) # <<>>
        THEN Some(last) ELSE None

\* C30: when the last line of a fragment is a bare identifier, the text of
\* its value is in the Observation: for a fragment that has printed nothing
\* and a value within the budget, the Observation is that text.
C30_LastExpressionShown ==
    (/\ p_op = "execute"
     /\ p_out.st = "ok"
     /\ LastName(p_text, p_out.env) # None
     /\ PRINTER \notin DOMAIN p_out.env) =>
        LET value == Str(p_out.env[LastName(p_text, p_out.env).val])
        IN  Len(value) + 1 <= p_out.budget => p_out.text = Strip(value)

----------------------------------------------------------------------------
(* Two top-level Sessions in two threads of one process.                   *)

\* The fragments the two Sessions are answered with.
ConcResponses ==
    {<<"print(ctx)">>, <<"v=ctx[:K]">>, <<"v=1/0">>,
     <<FENCE, "python", "nl", "sp", "nl", FENCE>>}

\* A Session started by completion() in thread t, awaiting its first
\* response; at max_depth 1 its fragments start no child.
Started(t, doc) ==
    StartRun([NewRLM("root", "rec", Provider, 1, MaxIterationsCfg, 0)
                 EXCEPT !.thread = t],
             <<>>, doc)

ConcInit ==
    /\ \E d1 \in Docs, d2 \in Docs :
          stack = <<Started(1, d1), Started(2, d2)>>
    /\ sys_stdout = 0
    /\ p_src = NoSrc
    /\ p_text = <<>>
    /\ p_env = EmptyEnv
    /\ p_op = "none"
    /\ p_out = None

\* Session i receives a response without code: execute returns before it
\* touches sys.stdout, and the pass ends.
ExecuteNoCode(i, response) ==
    /\ stack[i].pc = "llm"
    /\ Strip(_extract_code(response)) = <<>>
    /\ stack' = [stack EXCEPT ![i] =
                    AfterExecute([stack[i] EXCEPT !.response = response],
                                 RunExecute(stack[i], response))]
    /\ UNCHANGED <<sys_stdout, parser_vars>>

\* Session i receives a response that is no final answer and its thread
\* enters execute: old_stdout = sys.stdout; sys.stdout = StringIO().
ExecuteEnters(i, response) ==
    /\ stack[i].pc = "llm"
    /\ Strip(_extract_code(response)) # <<>>
    /\ stack' = [stack EXCEPT ![i] =
                    [@ EXCEPT !.response = response,
                              !.pc = "exec",
                              !.frame = [k |-> 0, old_stdout |-> sys_stdout]]]
    /\ sys_stdout' = stack[i].thread
    /\ UNCHANGED parser_vars

\* The thread of Session i runs the fragment and leaves execute through
\* its finally clause (sys.stdout = old_stdout); the pass ends.
ExecuteLeaves(i) ==
    /\ stack[i].pc = "exec"
    /\ stack' = [stack EXCEPT ![i] =
                    AfterExecute(@, RunExecute(@, stack[i].response))]
    /\ sys_stdout' = stack[i].frame.old_stdout
    /\ UNCHANGED parser_vars

ConcNext ==
    \E i \in {1, 2} :
        \/ \E r \in ConcResponses : ExecuteNoCode(i, r)
        \/ \E r \in ConcResponses : ExecuteEnters(i, r)
        \/ ExecuteLeaves(i)

ConcSpec == ConcInit /\ [][ConcNext]_vars

\* C28: two Sessions that run at the same time share no mutable state:
\* whenever neither is inside execute, the process-wide standard output
\* stream is the one that was there before they started.
C28_StdoutRestored ==
    (\A i \in DOMAIN stack : stack[i].pc # "exec") => sys_stdout = 0

----------------------------------------------------------------------------
(* Claims about code extraction.                                           *)

\* The closed blocks of a layout, in the order of the text.
ClosedBlocks(l) ==
    SelectSeq(<<l.first, l.second>>, LAMBDA b : b.present /\ b.closed)

\* The code of a layout: the contents of its first closed tagged block,
\* else of its first closed block, else the whole text.
CodeOf(l) ==
    LET closed == ClosedBlocks(l)
        tagged == SelectSeq(closed, LAMBDA b : b.tag)
    IN  IF tagged # <<>> THEN Strip(tagged[1].body)
        ELSE IF closed # <<>> THEN Strip(closed[1].body)
        ELSE LayoutText(l)

\* C31: the code extracted from a text is the contents of a closed fenced
\* block when there is one, of the block tagged python when a tagged and
\* an untagged block are both present, in either order, and the entire
\* text when no fence is closed; execute runs exactly that code.
C31_ExtractedCode ==
    /\ p_op = "_extract_code" => p_out = CodeOf(p_src)
    /\ p_op = "execute" =>
          LET x == execute(CodeOf(p_src), p_env, MaxOutputChars, FALSE,
                           ReplSentinel)
          IN  p_out = [st |-> x.st, text |-> x.text, env |-> x.env]

\* An untagged closed block precedes a tagged one and the tagged one ran.
C31_Witness ==
    /\ p_op = "execute"
    /\ p_src.first = Block(TRUE, FALSE, <<"print(ctx)">>, TRUE)
    /\ p_src.second = Block(TRUE, TRUE, <<"v=ctx[:K]">>, TRUE)
    /\ p_out.st = "ok"
    /\ <<"v">> \in DOMAIN p_out.env
    /\ p_out.text = NO_OUTPUT

----------------------------------------------------------------------------
(* Claims about fragments without code.                                    *)

\* C32: when the code is empty or blank after extraction, execute returns
\* the fixed text "No code to execute" without raising, and the
\* Environment and the process's output stream are as they were, also
\* while another thread is inside execute.
C32_NoCodeToExecute ==
    [][\A i \in {1, 2} : \A r \in ConcResponses :
          (/\ Strip(_extract_code(r)) = <<>>
           /\ stack[i].pc = "llm"
           /\ stack'[i] # stack[i]
           /\ stack'[i].response = r) =>
              /\ stack'[i].messages =
                    stack[i].messages \o <<Msg("assistant", r),
                                           Msg("user", NO_CODE)>>
              /\ stack'[i].env = stack[i].env
              /\ sys_stdout' = sys_stdout]_vars

\* A Session whose last Observation is the fixed text, after an earlier
\* pass that bound v, while the other thread is inside execute.
C32_Witness ==
    \E i \in {1, 2} :
        /\ Len(stack) = 2
        /\ stack[i].response = <<FENCE, "python", "nl", "sp", "nl", FENCE>>
        /\ stack[i].messages[Len(stack[i].messages)].content = NO_CODE
        /\ <<"v">> \in DOMAIN stack[i].env
        /\ stack[3 - i].pc = "exec"
        /\ sys_stdout = stack[3 - i].thread

----------------------------------------------------------------------------
(* Claims about the terminating turn.                                      *)

\* The pass of the running Session in which r is the response and its
\* terminal statement resolves.
ResolvingPass(r) ==
    /\ Top.pc = "llm"
    /\ Len(stack') >= Len(stack)
    /\ stack'[Len(stack)].response = r
    /\ is_final(r)
    /\ parse_response(r, Top.env) # None
    /\ LLMReturns(r)

\* C33: when the terminal statement of a response resolves, the answer is
\* its value in the Environment the earlier iterations left, and the
\* Session returns in that step: the code of the response is not run, no
\* binding changes, nothing is appended, no child Session starts and the
\* output stream is not touched.
C33_TerminatingTurnRunsNoCode ==
    [][\A r \in Responses :
          ResolvingPass(r) =>
              LET s1 == stack'[Len(stack)]
              IN  /\ Len(stack') = Len(stack)
                  /\ s1.pc = "returned"
                  /\ s1.result = Answer(parse_response(r, Top.env).val)
                  /\ s1.env = Top.env
                  /\ s1.messages = Top.messages
                  /\ sys_stdout' = sys_stdout]_vars

\* A Session that returned on a response whose code rebinds v and calls
\* recursive_llm: the answer is the v of the turn before, still bound.
C33_Witness ==
    /\ Len(stack) = 1
    /\ stack[1].pc = "returned"
    /\ stack[1].response = CodeThenFinal
    /\ stack[1].context = <<"a", "b", "a">>
    /\ stack[1].depth + 1 < stack[1].max_depth
    /\ stack[1].env[<<"v">>] = StrVal(<<"a", "b">>)
    /\ <<"w">> \notin DOMAIN stack[1].env
    /\ stack[1].result = Answer(<<"a", "b">>)

----------------------------------------------------------------------------
(* Claims about the terminal gate.                                         *)

\* C34: the terminal gate and the resolver agree: whenever parse_response
\* returns an answer for a text and an Environment, is_final is true of
\* the text.
C34_GateAgreesWithResolver ==
    (p_op = "parse_response" /\ p_out # None) => is_final(p_text)

----------------------------------------------------------------------------
(* Claims about the effects of a fragment.                                 *)

\* The Environment after each statement of the fragment has acted once, in
\* order, on env (with the collector of the fragment's prints).
EachStatementOnce(text, env) ==
    LET code == _extract_code(text)
    IN  RunFrom(IF UsesPrint(code) THEN Bind(env, PRINTER, PrinterVal(<<>>))
                ELSE env,
                SplitLines(code), 1, FALSE, ReplSentinel).env

\* C35: one execute call applies the effect of each statement of the
\* fragment exactly once: the Environment after a call that returned is
\* the Environment after every statement has acted once, also when the
\* last line is a bare call that mutates a value.
C35_EachStatementOnce ==
    (p_op = "execute" /\ p_out.st = "ok" /\ p_out.text # NO_CODE) =>
        p_out.env = EachStatementOnce(p_text, p_env)

----------------------------------------------------------------------------
(* Claims about faults and the Environment.                                *)

\* The last appended turn of Session s is the fragment that binds v to
\* context[K:] and later faults, and the Session is not inside a fragment.
FaultedAfterBinding(s) ==
    /\ s.pc \in {"llm", "returned", "raised"}
    /\ Appended(s) >= 1
    /\ s.messages[Len(s.messages) - 1] = Msg("assistant", CodeThenFinal)
    /\ IsErrorText(s.messages[Len(s.messages)].content)

\* C36: a runtime fault rolls nothing back: the bindings made by the
\* statements before the fault stay in the Environment, for the next
\* iteration and for the resolution of FINAL_VAR, and the Observation of
\* the faulting iteration is the error message.
C36_NoRollback ==
    /\ [](\A s \in Sessions :
            FaultedAfterBinding(s) =>
                /\ <<"v">> \in DOMAIN s.env
                /\ s.env[<<"v">>] = StrVal(Suffix(s.context, SliceLen))
                /\ (s.pc = "returned"
                      /\ s.response \in {FINAL_VAR(<<"v">>), CodeThenFinal}) =>
                        s.result = Answer(Suffix(s.context, SliceLen)))
    /\ [][\A r \in Responses :
            FaultingPass(r) =>
                LET s1 == stack'[Len(stack)]
                IN  /\ \A name \in DOMAIN Top.env : name \in DOMAIN s1.env
                    /\ s1.messages[Len(s1.messages)].content =
                          <<"Error: ">> \o RunExecute(Top, r).text
                    /\ r = CodeThenFinal =>
                          /\ s1.env[<<"v">>] =
                                StrVal(Suffix(Top.context, SliceLen))
                          /\ s1.env[<<"w">>] = StrVal(Sentinel(Top))]_vars

\* A Session that returned v by FINAL_VAR(v) right after the turn whose
\* fragment bound v and then faulted.
C36_Witness ==
    /\ stack[1].pc = "returned"
    /\ stack[1].response = FINAL_VAR(<<"v">>)
    /\ FaultedAfterBinding(stack[1])
    /\ Len(stack[1].messages) = 4
    /\ stack[1].context = <<"a", "b", "a">>
    /\ stack[1].result = Answer(<<"a">>)

----------------------------------------------------------------------------
(* One RLM instance serving several requests in sequence.                  *)

\* The number of requests the instance is asked to serve.
MaxRequests == 2

\* A top-level instance at max_depth 1 (its fragments start no child).
\* p_out counts, beside the program, the requests started and the model
\* calls answered or failed since the last request started.
ReuseInit ==
    /\ \E mi \in 1..MaxIterationsCfg :
          stack = <<NewRLM("root", "rec", Provider, 1, mi, 0)>>
    /\ sys_stdout = 0
    /\ p_src = NoSrc
    /\ p_text = <<>>
    /\ p_env = EmptyEnv
    /\ p_op = "none"
    /\ p_out = [requests |-> 0, calls |-> 0]

\* await rlm.acompletion(query, context) on the instance, new or with an
\* earlier call ended: the locals of the earlier call are gone, the
\* attributes of the instance are as that call left them.
Serve(query, context) ==
    /\ Len(stack) = 1
    /\ Top.pc = "idle" \/ Ended(Top)
    /\ p_out.requests < MaxRequests
    /\ stack' = <<StartRun([Top EXCEPT !.response = <<>>,
                                        !.result = NoResult,
                                        !.call_model = ""],
                           query, context)>>
    /\ p_out' = [requests |-> p_out.requests + 1, calls |-> 0]
    /\ UNCHANGED <<sys_stdout, p_src, p_text, p_env, p_op>>

\* litellm.acompletion returns response to the instance's running call.
ServeLLMReturns(response) ==
    /\ Top.pc = "llm"
    /\ LET s == AfterResponse(Top, response, sys_stdout)
       IN  /\ stack' = Continue(s)
           /\ sys_stdout' = StdoutAfter(s, sys_stdout)
    /\ p_out' = [p_out EXCEPT !.calls = @ + 1]
    /\ UNCHANGED <<p_src, p_text, p_env, p_op>>

\* litellm.acompletion raises in the instance's running call.
ServeLLMFails ==
    /\ Top.pc = "llm"
    /\ \E kind \in LLMFailures :
          stack' = [stack EXCEPT ![Len(stack)] = OnLLMFailure(Top, kind)]
    /\ p_out' = [p_out EXCEPT !.calls = @ + 1]
    /\ UNCHANGED <<sys_stdout, p_src, p_text, p_env, p_op>>

ReuseNext ==
    \/ \E q \in Queries, c \in Docs : Serve(q, c)
    \/ \E r \in Responses : ServeLLMReturns(r)
    \/ ServeLLMFails

ReuseSpec == ReuseInit /\ [][ReuseNext]_vars

\* C37: the statistics read after a request describe that request only:
\* once a request of the instance has ended, stats.llm_calls is the number
\* of model calls made by that request and equals stats.iterations,
\* whatever the instance served before.
C37_StatsOfThisRequest ==
    (Len(stack) = 1 /\ Ended(Top)) =>
        /\ stats(Top).llm_calls = p_out.calls
        /\ stats(Top).llm_calls = stats(Top).iterations

----------------------------------------------------------------------------
(* Claims about the output stream in sequential use.                       *)

\* The Sessions that are inside an execute call (suspended in a recursive
\* call of their fragment), by their position.
InsideExecute == {i \in DOMAIN stack : stack[i].pc = "child"}

\* C38: in sequential use every execute call restores sys.stdout to the
\* object installed when it began, however it ends, calls nested in child
\* Sessions included: a step in which a call begins and ends leaves the
\* stream as it was; a call that ends after its child installs the stream
\* it saved at entry; each call in progress has saved the stream of the
\* call around it (the original one for the outermost), and the process has
\* the capture stream of the innermost call, or the original one when no
\* call is in progress.
C38_StdoutRestoredSequentially ==
    /\ [](/\ InsideExecute = {} => sys_stdout = 0
          /\ \A i \in InsideExecute :
                /\ stack[i].frame.old_stdout =
                      (IF i = 1 THEN 0 ELSE stack[i - 1].depth + 1)
                /\ i = Max(InsideExecute) =>
                      sys_stdout = stack[i].depth + 1)
    /\ [][/\ \A r \in Responses :
                (/\ Top.pc = "llm"
                 /\ Len(stack') = Len(stack)
                 /\ stack'[Len(stack)].response = r
                 /\ LLMReturns(r)) => sys_stdout' = sys_stdout
          /\ (/\ Len(stack) >= 2
              /\ Ended(Top)
              /\ Len(stack') = Len(stack) - 1) =>
                  sys_stdout' = stack[Len(stack) - 1].frame.old_stdout]_vars

\* A child Session has run a fragment that raised, and one that returned
\* an observation, inside the fragment of its parent: the stream is the
\* parent's capture stream again.
C38_Witness ==
    /\ Len(stack) = 2
    /\ stack[1].pc = "child"
    /\ IsRaised(stack[2], "MaxIterationsError")
    /\ Len(stack[2].messages) = 6
    /\ IsErrorText(stack[2].messages[4].content)
    /\ ~IsErrorText(stack[2].messages[6].content)
    /\ stack[2].messages[6].content # NO_OUTPUT
    /\ sys_stdout = stack[1].depth + 1
    /\ stack[1].frame.old_stdout = 0

====
